---- MODULE Spec2Model ----
(***************************************************************************)
(* Verification model of gnss_lib_py's measurement engine:                 *)
(*   core/measures.py      find_sat, _find_sat_location, expected_measures,*)
(*                         simulate_measures, correct_pseudorange          *)
(*   utils/gnss_models.py  expected_measures, simulate_measures,           *)
(*                         add_measures, _calculate_clock_delay            *)
(*                                                                         *)
(* Arithmetic.  numpy's floating point is modelled by integer arithmetic:  *)
(* a division rounds towards minus infinity, a norm is the integer square  *)
(* root, and a quotient that a claim compares exactly (the Doppler) is     *)
(* kept as a reduced fraction.  Times of week are whole seconds.  The      *)
(* trigonometric chain of find_sat (Kepler solve, harmonic corrections,    *)
(* rotation into ECEF) is represented by find_sat_state, a periodic        *)
(* function of the elapsed time dt that find_sat computes.  The constants  *)
(* of core/constants.py (C, F1, OMEGAEDOT, T_TRANS, F) are expressed in    *)
(* model units that keep every product inside 32 bits.                     *)
(***************************************************************************)
EXTENDS Integers, Sequences, FiniteSets, TLC

\* ------------------------------------------------------------------------
\* Bounds of the model
\* ------------------------------------------------------------------------
\* number of satellites in one ephemeris table / measurement frame
NumSat == 3

SVs == 1..NumSat

\* ------------------------------------------------------------------------
\* State
\* ------------------------------------------------------------------------
\* one call of find_sat: its arguments and the elapsed times dt it computes
VARIABLES fs_pc, fs_gpsweek, fs_times, fs_ephem, fs_dt

fsVars == <<fs_pc, fs_gpsweek, fs_times, fs_ephem, fs_dt>>

\* one call of correct_pseudorange (cp_*, pr_meas the caller's array,
\* pr_meas_in the values it held when passed in, pr_corr the array
\* returned) and one of _calculate_clock_delay (cd_*)
VARIABLES cp_pc, cp_gpstime, cp_ephem, cp_rx_given, pr_meas, pr_meas_in,
          pr_corr, cp_t_offset, cd_pc, cd_t_offset, cd_clk_corr

cpVars == <<cp_pc, cp_gpstime, cp_ephem, cp_rx_given, pr_meas, pr_meas_in,
            pr_corr, cp_t_offset, cd_pc, cd_t_offset, cd_clk_corr>>

\* calls of expected_measures (core/measures.py)
VARIABLES
    gpsweek, gpstime, ephem,      \* arguments of the call
    pos, vel, bias, b_dot,        \* receiver state
    heap,                         \* the DataFrame objects: object -> content
    sat_posvel,                   \* the object the name sat_posvel is bound to
    mode,                         \* "ephem" (sat_posvel=None) or "table"
    pc,                           \* position inside expected_measures
    del_pos, true_range, t_corr,  \* locals of _find_sat_location
    steps,                        \* the operations of the current call, in order
    measurements,                 \* the DataFrame returned by the last call
    ret_sat_posvel,               \* the object returned as sat_posvel
    tbl_at_call,                  \* content of the caller's table at call time
    prev_measurements, prev_mode, \* result and mode of the call before
    calls                         \* calls made so far

emVars == <<gpsweek, gpstime, ephem, pos, vel, bias, b_dot, heap, sat_posvel,
            mode, pc, del_pos, true_range, t_corr, steps, measurements,
            ret_sat_posvel, tbl_at_call, prev_measurements, prev_mode, calls>>

\* one call of expected_measures (utils/gnss_models.py) with precomputed
\* satellite states, for the receiver state above
VARIABLES gm_pc, gm_sv_posvel, gm_measurements

gmVars == <<gm_pc, gm_sv_posvel, gm_measurements>>

\* one time step of add_measures: the measurement frame (am_sv_id the
\* satellite of each column, am_frame_sv its SV state rows when am_has_sv),
\* the ephemeris by satellite id, the arguments, and the frame of estimates
VARIABLES am_pc, am_sv_id, am_has_sv, am_frame_sv, am_ephem, am_tow,
          am_pseudorange, am_doppler, am_corrections, am_iono_params,
          am_est_frame

amVars == <<am_pc, am_sv_id, am_has_sv, am_frame_sv, am_ephem, am_tow,
            am_pseudorange, am_doppler, am_corrections, am_iono_params,
            am_est_frame>>

\* runs of simulate_measures: the ephemeris and time of week every run is
\* given, the state of the random generator the caller holds, and for each
\* run so far the function run, the state of the caller's generator at the
\* call (rng_in), the state of the generator the noise was drawn from
\* (drawn_from) and the measurements returned (out)
VARIABLES sm_ephem, sm_tow, sm_rng, sm_runs

smVars == <<sm_ephem, sm_tow, sm_rng, sm_runs>>

\* calls of the functions of gnss_models.py that take a receiver state
\* NavData: the number of columns of the state (st_cols), which optional
\* arguments are given, the ephemeris and time of week, and what each of
\* expected_measures, simulate_measures and calculate_pseudorange_corr did
VARIABLES st_cols, st_state_given, st_eph_given, st_sv_given, st_iono_given,
          st_ephem, st_tow, st_expected, st_simulated, st_corr, st_index,
          st_visible

stVars == <<st_cols, st_state_given, st_eph_given, st_sv_given, st_iono_given,
            st_ephem, st_tow, st_expected, st_simulated, st_corr, st_index,
            st_visible>>

\* a call of _compute_eccentric_anomoly(M, e): the arguments, one entry
\* per satellite, the locals E and dE, the number of updates done, the
\* position in the function and whether the message was printed
VARIABLES kp_M, kp_e, kp_E, kp_dE, kp_iter, kp_pc, kp_warned

kpVars == <<kp_M, kp_e, kp_E, kp_dE, kp_iter, kp_pc, kp_warned>>

\* calls of the atmospheric delay models: the receiver's geodetic height,
\* latitude and longitude, the time of week, the ionospheric parameters,
\* each satellite's elevation and azimuth, and what calculate_tropo_delay of
\* core/measures.py, _calculate_tropo_delay and _calculate_iono_delay of
\* gnss_models.py returned
VARIABLES at_height, at_lat_r, at_lon_r, at_tow, at_iono_params, at_el, at_az,
          at_tropo_core, at_tropo_gm, at_iono

atVars == <<at_height, at_lat_r, at_lon_r, at_tow, at_iono_params, at_el,
            at_az, at_tropo_core, at_tropo_gm, at_iono>>

\* a NavData instance (parsers/navdata.py): its array, map and str_map, the
\* instance as it was before the last call, the last call and what it
\* returned, the number of calls made, the instance's iteration attributes
\* curr_col and num_cols, and the columns two loops over the instance got
VARIABLES nd, nd_before, nd_call, nd_ret, nd_ops, nd_curr_col, nd_num_cols,
          it_loops

ndVars == <<nd, nd_before, nd_call, nd_ret, nd_ops, nd_curr_col, nd_num_cols,
            it_loops>>

\* the harmonic corrections of find_sat (core/measures.py) for one
\* satellite: the argument of latitude before correction, the harmonic
\* coefficients, the radius and its rate before correction, the refinements
\* made, the locals phi, cos_to_phi and sin_to_phi, and the corrected values
VARIABLES ph_pc, ph_phi_0, ph_coef, ph_r_0, ph_i, ph_phi, ph_cos_to_phi,
          ph_sin_to_phi, ph_corr, ph_plane

phVars == <<ph_pc, ph_phi_0, ph_coef, ph_r_0, ph_i, ph_phi, ph_cos_to_phi,
            ph_sin_to_phi, ph_corr, ph_plane>>

notFs == <<cpVars, emVars, gmVars, amVars, smVars, stVars, kpVars, atVars, ndVars, phVars>>
notCp == <<fsVars, emVars, gmVars, amVars, smVars, stVars, kpVars, atVars, ndVars, phVars>>
notEm == <<fsVars, cpVars, gmVars, amVars, smVars, stVars, kpVars, atVars, ndVars, phVars>>
notGm == <<fsVars, cpVars, emVars, amVars, smVars, stVars, kpVars, atVars, ndVars, phVars>>
notAm == <<fsVars, cpVars, emVars, gmVars, smVars, stVars, kpVars, atVars, ndVars, phVars>>
notSm == <<fsVars, cpVars, emVars, gmVars, amVars, stVars, kpVars, atVars, ndVars, phVars>>
notSt == <<fsVars, cpVars, emVars, gmVars, amVars, smVars, kpVars, atVars, ndVars, phVars>>
notKp == <<fsVars, cpVars, emVars, gmVars, amVars, smVars, stVars, atVars, ndVars, phVars>>
notAt == <<fsVars, cpVars, emVars, gmVars, amVars, smVars, stVars, kpVars, ndVars, phVars>>
notNd == <<fsVars, cpVars, emVars, gmVars, amVars, smVars, stVars, kpVars, atVars, phVars>>
notPh == <<fsVars, cpVars, emVars, gmVars, amVars, smVars, stVars, kpVars, atVars, ndVars>>

\* ------------------------------------------------------------------------
\* Constants of the program
\* ------------------------------------------------------------------------
\* seconds in one GPS week (measures.py:350, measures.py:518)
WEEKSEC == 604800

\* half a week, the threshold of the week-rollover wrap (measures.py:517)
HALFWEEK == 302400

\* modulus of the broadcast 10-bit week number (measures.py:350)
WEEKMOD == 1024

\* GPSConsts of core/constants.py and utils/constants.py, in model units:
\* speed of light (length units per second)
C == 2

\* L1 carrier frequency; only the ratio F1/C enters the Doppler
F1 == 10

\* Earth rotation rate (radians per second)
OMEGAEDOT == 1

\* nominal signal transit time (seconds)
T_TRANS == 1

\* relativistic clock correction constant
F == -1

\* ------------------------------------------------------------------------
\* numpy helpers
\* ------------------------------------------------------------------------
Abs(x) == IF x < 0 THEN -x ELSE x

\* np.sign
Sign(x) == IF x > 0 THEN 1 ELSE IF x < 0 THEN -1 ELSE 0

\* the truth value of a Python bool used as a number (True == 1)
BoolAsInt(b) == IF b THEN 1 ELSE 0

\* ndarray.any(): whether any element is non-zero
AnyNonzero(v) == \E i \in DOMAIN v : v[i] # 0

\* ------------------------------------------------------------------------
\* find_sat: elapsed time since the ephemeris reference epoch
\* ------------------------------------------------------------------------
\* gpsweek_diff = np.mod(gpsweek,1024) - np.mod(ephem['GPSWeek'],1024)*604800.
\* The product binds tighter than the difference, as in Python.
find_sat_gpsweek_diff(week, eph) ==
    (week % WEEKMOD) - (eph.GPSWeek % WEEKMOD) * WEEKSEC

\* dt = times - ephem['t_oe'] + gpsweek_diff
find_sat_dt(times, week, eph) ==
    times - eph.t_oe + find_sat_gpsweek_diff(week, eph)

FsWeeks == {0, 1, 1023, 1024, 2238}
FsEphWeeks == {0, 1, 2238}
FsToe == {0, 7200}
FsTimes == {0, 7300, 604799}

FsEphem == [SVs -> [GPSWeek : FsEphWeeks, t_oe : FsToe]]

FsIdle ==
    /\ fs_pc = "idle"
    /\ fs_gpsweek = 0
    /\ fs_times = 0
    /\ fs_ephem = [s \in SVs |-> [GPSWeek |-> 0, t_oe |-> 0]]
    /\ fs_dt = [s \in SVs |-> 0]

InitFindSat ==
    /\ fs_pc = "idle"
    /\ fs_gpsweek \in FsWeeks
    /\ fs_times \in FsTimes
    /\ fs_ephem \in FsEphem
    /\ fs_dt = [s \in SVs |-> 0]

\* one call of find_sat(ephem, times, gpsweek)
FindSat ==
    /\ fs_pc = "idle"
    /\ fs_dt' = [s \in SVs |-> find_sat_dt(fs_times, fs_gpsweek, fs_ephem[s])]
    /\ fs_pc' = "done"
    /\ UNCHANGED <<fs_gpsweek, fs_times, fs_ephem>>
    /\ UNCHANGED notFs

\* ------------------------------------------------------------------------
\* Floating point values that may be not-a-number
\* ------------------------------------------------------------------------
FNaN == [nan |-> TRUE, val |-> 0]

FNum(v) == [nan |-> FALSE, val |-> v]

FAdd(a, b) == IF a.nan \/ b.nan THEN FNaN ELSE FNum(a.val + b.val)

FSub(a, b) == IF a.nan \/ b.nan THEN FNaN ELSE FNum(a.val - b.val)

FScale(a, k) == IF a.nan THEN FNaN ELSE FNum(a.val * k)

\* np.where(np.isnan(a), b, a), element by element
np_where_isnan(a, b) == [s \in DOMAIN a |-> IF a[s].nan THEN b[s] ELSE a[s]]

\* sine and cosine of an angle counted in quarter turns
SinQ(k) == <<0, 1, 0, -1>>[(k % 4) + 1]

CosQ(k) == <<1, 0, -1, 0>>[(k % 4) + 1]

\* ------------------------------------------------------------------------
\* Satellite clock correction: correct_pseudorange (core/measures.py) and
\* _calculate_clock_delay (utils/gnss_models.py)
\* ------------------------------------------------------------------------
\* if np.abs(x).any() > 302400: x = x - np.sign(x)*604800
\* np.abs(x).any() is one bool for the whole array, compared as a number.
half_week_wrap(x) ==
    IF BoolAsInt(AnyNonzero([s \in DOMAIN x |-> Abs(x[s])])) > HALFWEEK
    THEN [s \in DOMAIN x |-> x[s] - Sign(x[s]) * WEEKSEC]
    ELSE x

\* dt = gpstime - ephem['t_oe'], wrapped
correct_pseudorange_dt(tow, eph_tbl) ==
    half_week_wrap([s \in SVs |-> tow - eph_tbl[s].t_oe])

\* t_offset = gpstime - ephem['t_oc'], wrapped
correct_pseudorange_t_offset(tow, eph_tbl) ==
    half_week_wrap([s \in SVs |-> tow - eph_tbl[s].t_oc])

\* t_offset = gps_tow - ephem['t_oc'], wrapped
calculate_clock_delay_t_offset(gps_tow, eph_tbl) ==
    half_week_wrap([s \in SVs |-> gps_tow - eph_tbl[s].t_oc])

\* corr_polynomial - TGD + corr_relativistic for one satellite; the
\* eccentric anomaly is dt quarter turns past M_0 (circular orbit).
clock_corr(eph, t_offset, dt) ==
    LET corr_polynomial ==
            FAdd(eph.SVclockBias,
                 FNum(eph.SVclockDrift * t_offset
                      + eph.SVclockDriftRate * t_offset * t_offset))
        corr_relativistic == F * eph.e_sqrtA * SinQ(eph.M_0 + dt)
    IN  FAdd(FSub(corr_polynomial, FNum(eph.TGD)), FNum(corr_relativistic))

\* tropospheric delay of calculate_tropo_delay, per satellite, in seconds
calculate_tropo_delay(eph_tbl) == [s \in SVs |-> eph_tbl[s].tropo]

\* correct_pseudorange: pr_corr is bound to the caller's array pr_meas and
\* updated in place, so `arr` below is the content of that one array.
correct_pseudorange(tow, eph_tbl, pr_meas_arr, rx_given) ==
    LET dt == correct_pseudorange_dt(tow, eph_tbl)
        t_offset == correct_pseudorange_t_offset(tow, eph_tbl)
        clk_corr == [s \in SVs |-> clock_corr(eph_tbl[s], t_offset[s], dt[s])]
        \* pr_corr += clk_corr*gpsconsts.C
        arr1 == [s \in SVs |-> FAdd(pr_meas_arr[s], FScale(clk_corr[s], C))]
        tropo_delay == calculate_tropo_delay(eph_tbl)
        \* pr_corr -= tropo_delay*gpsconsts.C
        arr2 == IF rx_given
                THEN [s \in SVs |-> FSub(arr1[s], FNum(tropo_delay[s] * C))]
                ELSE arr1
    IN  [pr_meas |-> arr2,
         pr_corr |-> np_where_isnan(arr2, arr2),
         t_offset |-> t_offset]

\* _calculate_clock_delay: clk_corr in metres
calculate_clock_delay(gps_tow, eph_tbl) ==
    LET t_offset == calculate_clock_delay_t_offset(gps_tow, eph_tbl)
        \* _compute_eccentric_anomaly(gps_week, gps_tow, ephem)
        dt == [s \in SVs |-> gps_tow - eph_tbl[s].t_oe]
    IN  [t_offset |-> t_offset,
         clk_corr |-> [s \in SVs |->
                          FScale(clock_corr(eph_tbl[s], t_offset[s], dt[s]), C)]]

CpTimes == {0, 100000, 400000, 604799}
CpToc == {0, 597600}
CpBias == {FNaN, FNum(3)}
CpMeas == {FNum(100), FNum(200)}

CpEphem ==
    [SVs -> [t_oe : {0}, t_oc : CpToc, SVclockBias : CpBias,
             SVclockDrift : {1}, SVclockDriftRate : {0}, TGD : {1},
             e_sqrtA : {1}, M_0 : {1}, tropo : {2}]]

CpNoEphem ==
    [s \in SVs |-> [t_oe |-> 0, t_oc |-> 0, SVclockBias |-> FNum(0),
                    SVclockDrift |-> 0, SVclockDriftRate |-> 0, TGD |-> 0,
                    e_sqrtA |-> 0, M_0 |-> 0, tropo |-> 0]]

CpZero == [s \in SVs |-> FNum(0)]

CpIdle ==
    /\ cp_pc = "idle"
    /\ cp_gpstime = 0
    /\ cp_ephem = CpNoEphem
    /\ cp_rx_given = FALSE
    /\ pr_meas = CpZero
    /\ pr_meas_in = CpZero
    /\ pr_corr = CpZero
    /\ cp_t_offset = [s \in SVs |-> 0]
    /\ cd_pc = "idle"
    /\ cd_t_offset = [s \in SVs |-> 0]
    /\ cd_clk_corr = CpZero

InitCorrect ==
    /\ cp_pc = "idle"
    /\ cp_gpstime \in CpTimes
    /\ cp_ephem \in CpEphem
    /\ cp_rx_given \in BOOLEAN
    /\ pr_meas \in [SVs -> CpMeas]
    /\ pr_meas_in = pr_meas
    /\ pr_corr = CpZero
    /\ cp_t_offset = [s \in SVs |-> 0]
    /\ cd_pc = "idle"
    /\ cd_t_offset = [s \in SVs |-> 0]
    /\ cd_clk_corr = CpZero

\* one call correct_pseudorange(gpstime, gpsweek, ephem, pr_meas, rx_ecef);
\* pr_meas_in keeps the values the caller passed in
CorrectPseudorange ==
    /\ cp_pc = "idle"
    /\ LET r == correct_pseudorange(cp_gpstime, cp_ephem, pr_meas, cp_rx_given)
       IN  /\ pr_meas' = r.pr_meas
           /\ pr_corr' = r.pr_corr
           /\ cp_t_offset' = r.t_offset
    /\ cp_pc' = "done"
    /\ UNCHANGED <<cp_gpstime, cp_ephem, cp_rx_given, pr_meas_in,
                   cd_pc, cd_t_offset, cd_clk_corr>>
    /\ UNCHANGED notCp

\* one call _calculate_clock_delay(gps_millis, ephem)
CalculateClockDelay ==
    /\ cd_pc = "idle"
    /\ LET r == calculate_clock_delay(cp_gpstime, cp_ephem)
       IN  /\ cd_t_offset' = r.t_offset
           /\ cd_clk_corr' = r.clk_corr
    /\ cd_pc' = "done"
    /\ UNCHANGED <<cp_pc, cp_gpstime, cp_ephem, cp_rx_given, pr_meas,
                   pr_meas_in, pr_corr, cp_t_offset>>
    /\ UNCHANGED notCp

\* ------------------------------------------------------------------------
\* Vectors and fractions
\* ------------------------------------------------------------------------
VSub(a, b) == <<a[1] - b[1], a[2] - b[2], a[3] - b[3]>>

Dot(a, b) == a[1] * b[1] + a[2] * b[2] + a[3] * b[3]

RECURSIVE ISqrtBetween(_, _, _)
\* the largest r in lo..hi with r*r <= n, by bisection
ISqrtBetween(n, lo, hi) ==
    IF lo >= hi THEN lo
    ELSE LET mid == (lo + hi + 1) \div 2
         IN  IF mid * mid <= n THEN ISqrtBetween(n, mid, hi)
             ELSE ISqrtBetween(n, lo, mid - 1)

\* np.sqrt on the model's integers
ISqrt(n) == ISqrtBetween(n, 0, IF n < 46340 THEN n ELSE 46340)

\* np.linalg.norm of a 3-vector
Norm(v) == ISqrt(Dot(v, v))

RECURSIVE Gcd(_, _)
Gcd(a, b) == IF b = 0 THEN a ELSE Gcd(b, a % b)

\* the quotient n/d (d # 0) as a fraction in lowest terms
Frac(n, d) ==
    LET g == Gcd(Abs(n), Abs(d))
        sg == IF d < 0 THEN -1 ELSE 1
    IN  [num |-> sg * (n \div g), den |-> sg * (d \div g)]

\* ------------------------------------------------------------------------
\* Orbit propagation (find_sat) and the measurement model of
\* core/measures.py: _find_sat_location, _find_delxyz_range,
\* expected_measures
\* ------------------------------------------------------------------------
\* calls of expected_measures in one behaviour
MaxCalls == 2

\* The position and velocity find_sat derives from dt: the Keplerian chain
\* (lines 365-454) on a circular orbit of radius R at height z in the ECEF
\* frame, the eccentric anomaly advancing one quarter turn per second.
find_sat_state(eph, times, week) ==
    LET dt == find_sat_dt(times, week, eph)
        E == eph.M_0 + dt
    IN  [x |-> eph.R * CosQ(E), y |-> eph.R * SinQ(E), z |-> eph.z,
         vx |-> -eph.R * SinQ(E), vy |-> eph.R * CosQ(E), vz |-> 0]

\* find_sat(ephem, times, gpsweek): a new DataFrame, one row per satellite;
\* times is one time per satellite
find_sat(eph_tbl, times, week) ==
    [s \in SVs |-> find_sat_state(eph_tbl[s], times[s], week)]

\* _extract_pos_vel_arr
SatPos(row) == <<row.x, row.y, row.z>>

SatVel(row) == <<row.vx, row.vy, row.vz>>

\* _find_delxyz_range(sat_posvel, pos, satellites)
find_delxyz_range(tbl, rx_pos) ==
    LET d == [s \in SVs |-> VSub(SatPos(tbl[s]), rx_pos)]
    IN  [del_pos |-> d, true_range |-> [s \in SVs |-> Norm(d[s])]]

\* t_corr = true_range/gpsconsts.C
transit_time(range) == [s \in SVs |-> range[s] \div C]

\* Corrections for the rotation of the Earth during transmission:
\* del_x = OMEGAEDOT*sat_posvel['x']*t_corr, del_y likewise with 'y';
\* columns x and y of the table are assigned in place.
earth_rotation(tbl, tc) ==
    [s \in SVs |->
        LET del_x == OMEGAEDOT * tbl[s].x * tc[s]
            del_y == OMEGAEDOT * tbl[s].y * tc[s]
        IN  [tbl[s] EXCEPT !.x = tbl[s].x + del_x, !.y = tbl[s].y + del_y]]

\* expected_measures without the receiver clock bias in the pseudorange
expected_measures_prange_no_bias(range, clk_bias) ==
    [s \in SVs |-> range[s]]

\* prange = true_range + bias
expected_measures_prange(range, clk_bias) ==
    [s \in SVs |-> range[s] + clk_bias]

\* doppler = -(F1/C) * (np.sum(del_vel*del_pos, axis=1)/true_range + b_dot)
expected_measures_doppler(tbl, dpos, range, rx_vel, clk_drift) ==
    [s \in SVs |->
        LET del_vel == VSub(SatVel(tbl[s]), rx_vel)
            dot == Dot(del_vel, dpos[s])
        IN  Frac(-F1 * (dot + clk_drift * range[s]), C * range[s])]

\* the tail of expected_measures (core/measures.py) after _find_sat_location
expected_measures_core(tbl, dpos, range, rx_vel, clk_bias, clk_drift) ==
    LET prange == expected_measures_prange(range, clk_bias)
        doppler == expected_measures_doppler(tbl, dpos, range, rx_vel, clk_drift)
    IN  [s \in SVs |-> [prange |-> prange[s], doppler |-> doppler[s]]]

\* _find_sat_location without the second propagation pass
find_sat_location_next_one_pass(p, is_none) ==
    CASE p = "start" -> IF is_none THEN "find_sat_1" ELSE "range_2"
      [] p = "find_sat_1" -> "range_2"
      [] p = "range_1" -> "find_sat_2"
      [] p = "find_sat_2" -> "range_2"
      [] p = "range_2" -> "earth_rotation"
      [] p = "earth_rotation" -> "measures"

\* the statement _find_sat_location executes after the one at p
find_sat_location_next(p, is_none) ==
    CASE p = "start" -> IF is_none THEN "find_sat_1" ELSE "range_2"
      [] p = "find_sat_1" -> "range_1"
      [] p = "range_1" -> "find_sat_2"
      [] p = "find_sat_2" -> "range_2"
      [] p = "range_2" -> "earth_rotation"
      [] p = "earth_rotation" -> "measures"

Objects == {"caller", "pass1", "pass2"}

ZeroRow == [x |-> 0, y |-> 0, z |-> 0, vx |-> 0, vy |-> 0, vz |-> 0]
NoFrame == [s \in SVs |-> ZeroRow]
NoVecs == [s \in SVs |-> <<0, 0, 0>>]
NoInts == [s \in SVs |-> 0]
NoMeasurements ==
    [s \in SVs |-> [prange |-> 0, doppler |-> [num |-> 0, den |-> 1]]]

EmEphem == [SVs -> [GPSWeek : {2238}, t_oe : {0}, M_0 : {0, 1},
                    R : {8, 12}, z : {6}]]
EmTimes == {10, 11}
EmPos == {<<1, 2, 0>>, <<0, 3, 1>>}
EmBias == {0, 5}

EmIdle ==
    /\ gpsweek = 0 /\ gpstime = 0
    /\ ephem = [s \in SVs |-> [GPSWeek |-> 0, t_oe |-> 0, M_0 |-> 0,
                               R |-> 0, z |-> 0]]
    /\ pos = <<0, 0, 0>> /\ vel = <<0, 0, 0>> /\ bias = 0 /\ b_dot = 0
    /\ heap = [o \in Objects |-> NoFrame]
    /\ sat_posvel = "none" /\ mode = "none" /\ pc = "idle"
    /\ del_pos = NoVecs /\ true_range = NoInts /\ t_corr = NoInts
    /\ steps = <<>>
    /\ measurements = NoMeasurements /\ ret_sat_posvel = "none"
    /\ tbl_at_call = NoFrame
    /\ prev_measurements = NoMeasurements /\ prev_mode = "none"
    /\ calls = 0

\* The caller holds satellite states precomputed for the epoch.
InitMeasures ==
    /\ gpsweek = 2238
    /\ gpstime \in EmTimes
    /\ ephem \in EmEphem
    /\ pos \in EmPos /\ vel = <<1, 0, 0>> /\ bias \in EmBias /\ b_dot = 2
    /\ heap = [o \in Objects |->
                 IF o = "caller"
                 THEN find_sat(ephem, [s \in SVs |-> gpstime], gpsweek)
                 ELSE NoFrame]
    /\ sat_posvel = "none" /\ mode = "none" /\ pc = "idle"
    /\ del_pos = NoVecs /\ true_range = NoInts /\ t_corr = NoInts
    /\ steps = <<>>
    /\ measurements = NoMeasurements /\ ret_sat_posvel = "none"
    /\ tbl_at_call = NoFrame
    /\ prev_measurements = NoMeasurements /\ prev_mode = "none"
    /\ calls = 0

\* expected_measures(gpsweek, gpstime, ephem, pos, bias, b_dot, vel,
\* sat_posvel) is called, with sat_posvel=None or with the caller's table;
\* _find_sat_location is entered.
Call(m) ==
    /\ pc \in {"idle", "done"}
    /\ calls < MaxCalls
    /\ calls' = calls + 1
    /\ mode' = m
    /\ sat_posvel' = IF m = "table" THEN "caller" ELSE "none"
    /\ pc' = find_sat_location_next("start", m = "ephem")
    /\ steps' = <<>>
    /\ tbl_at_call' = heap["caller"]
    /\ prev_measurements' = measurements
    /\ prev_mode' = mode
    /\ UNCHANGED <<gpsweek, gpstime, ephem, pos, vel, bias, b_dot, heap,
                   del_pos, true_range, t_corr, measurements, ret_sat_posvel>>
    /\ UNCHANGED notEm

CallEphem == Call("ephem")

CallTable == Call("table")

\* sat_posvel = find_sat(ephem, gpstime - gpsconsts.T_TRANS, gpsweek)
FindSat1 ==
    /\ pc = "find_sat_1"
    /\ LET times == [s \in SVs |-> gpstime - T_TRANS]
       IN  /\ heap' = [heap EXCEPT !["pass1"] = find_sat(ephem, times, gpsweek)]
           /\ steps' = Append(steps, [op |-> "find_sat", arg |-> times])
    /\ sat_posvel' = "pass1"
    /\ pc' = find_sat_location_next(pc, TRUE)
    /\ UNCHANGED <<gpsweek, gpstime, ephem, pos, vel, bias, b_dot, mode,
                   del_pos, true_range, t_corr, measurements, ret_sat_posvel,
                   tbl_at_call, prev_measurements, prev_mode, calls>>
    /\ UNCHANGED notEm

\* del_pos, true_range = _find_delxyz_range(sat_posvel, pos, satellites)
\* t_corr = true_range/gpsconsts.C            (lines 246-247 and 252-253)
RangeStep(p) ==
    /\ pc = p
    /\ LET r == find_delxyz_range(heap[sat_posvel], pos)
       IN  /\ del_pos' = r.del_pos
           /\ true_range' = r.true_range
           /\ t_corr' = transit_time(r.true_range)
           /\ steps' = Append(steps, [op |-> "range",
                                      arg |-> transit_time(r.true_range)])
    /\ pc' = find_sat_location_next(pc, mode = "ephem")
    /\ UNCHANGED <<gpsweek, gpstime, ephem, pos, vel, bias, b_dot, heap,
                   sat_posvel, mode, measurements, ret_sat_posvel,
                   tbl_at_call, prev_measurements, prev_mode, calls>>
    /\ UNCHANGED notEm

Range1 == RangeStep("range_1")

Range2 == RangeStep("range_2")

\* sat_posvel = find_sat(ephem, gpstime-t_corr, gpsweek)
FindSat2 ==
    /\ pc = "find_sat_2"
    /\ LET times == [s \in SVs |-> gpstime - t_corr[s]]
       IN  /\ heap' = [heap EXCEPT !["pass2"] = find_sat(ephem, times, gpsweek)]
           /\ steps' = Append(steps, [op |-> "find_sat", arg |-> times])
    /\ sat_posvel' = "pass2"
    /\ pc' = find_sat_location_next(pc, TRUE)
    /\ UNCHANGED <<gpsweek, gpstime, ephem, pos, vel, bias, b_dot, mode,
                   del_pos, true_range, t_corr, measurements, ret_sat_posvel,
                   tbl_at_call, prev_measurements, prev_mode, calls>>
    /\ UNCHANGED notEm

\* sat_posvel['x'] = sat_posvel['x'] + del_x, and 'y': the object bound to
\* sat_posvel is updated, whichever object that is
EarthRotation ==
    /\ pc = "earth_rotation"
    /\ heap' = [heap EXCEPT ![sat_posvel] = earth_rotation(heap[sat_posvel], t_corr)]
    /\ steps' = Append(steps, [op |-> "earth_rotation", arg |-> t_corr])
    /\ pc' = find_sat_location_next(pc, mode = "ephem")
    /\ UNCHANGED <<gpsweek, gpstime, ephem, pos, vel, bias, b_dot, sat_posvel,
                   mode, del_pos, true_range, t_corr, measurements,
                   ret_sat_posvel, tbl_at_call, prev_measurements, prev_mode,
                   calls>>
    /\ UNCHANGED notEm

\* lines 154-172: pseudorange and Doppler from what _find_sat_location
\* returned; return measurements, sat_posvel
Measures ==
    /\ pc = "measures"
    /\ measurements' = expected_measures_core(heap[sat_posvel], del_pos,
                                              true_range, vel, bias, b_dot)
    /\ ret_sat_posvel' = sat_posvel
    /\ pc' = "done"
    /\ UNCHANGED <<gpsweek, gpstime, ephem, pos, vel, bias, b_dot, heap,
                   sat_posvel, mode, del_pos, true_range, t_corr, steps,
                   tbl_at_call, prev_measurements, prev_mode, calls>>
    /\ UNCHANGED notEm

\* ------------------------------------------------------------------------
\* expected_measures of utils/gnss_models.py
\* ------------------------------------------------------------------------
\* _find_sat_location(gpsweek, gpstime, ephem, pos) of core/measures.py with
\* sat_posvel=None, as one function: the two passes and the Earth-rotation
\* correction; del_pos and true_range are those of the second pass
find_sat_location(eph_tbl, tow, week, rx_pos) ==
    LET pass1 == find_sat(eph_tbl, [s \in SVs |-> tow - T_TRANS], week)
        tc1 == transit_time(find_delxyz_range(pass1, rx_pos).true_range)
        pass2 == find_sat(eph_tbl, [s \in SVs |-> tow - tc1[s]], week)
        r2 == find_delxyz_range(pass2, rx_pos)
    IN  [sat_posvel |-> earth_rotation(pass2, transit_time(r2.true_range)),
         del_pos |-> r2.del_pos, true_range |-> r2.true_range]

\* no DataFrame / NavData (None)
None == [none |-> TRUE, tbl |-> NoFrame]

Some(tbl) == [none |-> FALSE, tbl |-> tbl]

\* _find_sv_location(gps_millis, rx_ecef, ephem, sv_posvel): the states
\* (precomputed ones when given, else propagated from the ephemeris by the
\* two-pass scheme), their difference from the receiver position and the
\* geometric ranges
find_sv_location(tow, week, rx_pos, eph_tbl, sv_posvel_opt) ==
    IF sv_posvel_opt.none
    THEN LET r == find_sat_location(eph_tbl, tow, week, rx_pos)
         IN  [sv_posvel |-> r.sat_posvel, del_pos |-> r.del_pos,
              true_range |-> r.true_range]
    ELSE LET r == find_delxyz_range(sv_posvel_opt.tbl, rx_pos)
         IN  [sv_posvel |-> sv_posvel_opt.tbl, del_pos |-> r.del_pos,
              true_range |-> r.true_range]

\* expected_measures(gps_millis, state, ephem, sv_posvel) of gnss_models.py.
\* prange = true_range; prange += clk_bias: prange and true_range name one
\* array, which the in-place addition updates; prange_rate then divides by
\* true_range.
gm_expected_measures(tow, week, rx_pos, rx_vel, clk_bias, clk_drift, eph_tbl, sv_posvel_opt) ==
    LET loc == find_sv_location(tow, week, rx_pos, eph_tbl, sv_posvel_opt)
        arr == [s \in SVs |-> loc.true_range[s] + clk_bias]
        prange == arr
        range == arr
        doppler == expected_measures_doppler(loc.sv_posvel, loc.del_pos,
                                             range, rx_vel, clk_drift)
    IN  [measurements |->
             [s \in SVs |-> [prange |-> prange[s], doppler |-> doppler[s]]],
         sv_posvel |-> loc.sv_posvel]

GmIdle ==
    /\ gm_pc = "idle"
    /\ gm_sv_posvel = NoFrame
    /\ gm_measurements = NoMeasurements

\* The caller holds satellite states precomputed for the epoch.
InitGm ==
    /\ gm_pc = "idle"
    /\ gm_sv_posvel = find_sat(ephem, [s \in SVs |-> gpstime], gpsweek)
    /\ gm_measurements = NoMeasurements

\* one call expected_measures(gps_millis, state, ephem=None, sv_posvel)
GmExpectedMeasures ==
    /\ gm_pc = "idle"
    /\ gm_measurements' =
           gm_expected_measures(gpstime, gpsweek, pos, vel, bias, b_dot,
                                ephem, Some(gm_sv_posvel)).measurements
    /\ gm_pc' = "done"
    /\ UNCHANGED gm_sv_posvel
    /\ UNCHANGED notGm

\* ------------------------------------------------------------------------
\* add_measures of utils/gnss_models.py: one time step of its loop
\* ------------------------------------------------------------------------
\* np.argsort of distinct values: the indexes of a in increasing order of
\* their values
np_argsort(a) ==
    [i \in DOMAIN a |->
        CHOOSE j \in DOMAIN a :
            Cardinality({k \in DOMAIN a : a[k] < a[j]}) = i - 1]

\* a[ind] of numpy and NavData.sort(ind=ind): column i of the result is
\* column ind[i] of a
sort_ind(a, ind) == [i \in DOMAIN ind |-> a[ind[i]]]

\* _sort_ephem_measures(measure_frame, ephem): the ephemeris of the frame's
\* satellites in increasing order of satellite id, the permutation that
\* sorts the frame's columns, and its inverse
sort_ephem_measures(sv_id, eph_by_id) ==
    LET sorted_sats_ind == np_argsort(sv_id)
    IN  [rx_ephem |-> [i \in SVs |-> eph_by_id[sv_id[sorted_sats_ind[i]]]],
         sorted_sats_ind |-> sorted_sats_ind,
         inv_sort_order |-> np_argsort(sorted_sats_ind)]

\* _calculate_tropo_delay and _calculate_iono_delay, per satellite in metres
gm_calculate_tropo_delay(eph_tbl) == [s \in SVs |-> eph_tbl[s].tropo]

gm_calculate_iono_delay(eph_tbl) == [s \in SVs |-> eph_tbl[s].iono]

\* calculate_pseudorange_corr(gps_millis, state, ephem, sv_posvel,
\* iono_params) with ephemeris given
calculate_pseudorange_corr(gps_tow, state_given, eph_tbl, iono_given) ==
    [clock_corr |-> calculate_clock_delay(gps_tow, eph_tbl).clk_corr,
     tropo_delay |-> IF state_given THEN gm_calculate_tropo_delay(eph_tbl)
                     ELSE NoInts,
     iono_delay |-> IF iono_given /\ state_given
                    THEN gm_calculate_iono_delay(eph_tbl)
                    ELSE NoInts]

\* receiver state rows of the measurement frame
AmWeek == 2238
AmPos == <<1, 2, 0>>
AmVel == <<1, 0, 0>>
AmBias == 5
AmDrift == 2

NoFloats == [s \in SVs |-> FNum(0)]

NoEstFrame ==
    [rows |-> {}, est_pr_m |-> NoInts,
     est_doppler_hz |-> [s \in SVs |-> [num |-> 0, den |-> 1]],
     b_sv_m |-> NoFloats, tropo_delay_m |-> NoInts, iono_delay_m |-> NoInts,
     sv |-> NoFrame]

sv_state_rows ==
    {"x_sv_m", "y_sv_m", "z_sv_m", "vx_sv_mps", "vy_sv_mps", "vz_sv_mps"}

\* est_frame of one time step from the values computed in sorted order
\* (lines 129-143): ok is FALSE when forming it raises
add_measures_frame(so, use_posvel, sorted_meas, sv_posvel_1, corr, pseudorange, doppler, corrections) ==
    IF use_posvel /\ sv_posvel_1.none
    THEN [ok |-> FALSE, est_frame |-> NoEstFrame]
    ELSE [ok |-> TRUE,
          est_frame |->
            [rows |-> (IF pseudorange THEN {"est_pr_m"} ELSE {})
                      \cup (IF doppler THEN {"est_doppler_hz"} ELSE {})
                      \cup (IF corrections
                            THEN {"b_sv_m", "tropo_delay_m", "iono_delay_m"}
                            ELSE {})
                      \cup (IF use_posvel THEN sv_state_rows ELSE {}),
             \* est_meas = est_meas.sort(ind=inv_sort_order)
             est_pr_m |->
                 IF pseudorange
                 THEN [i \in SVs |-> sorted_meas[so.inv_sort_order[i]].prange]
                 ELSE NoInts,
             est_doppler_hz |->
                 IF doppler
                 THEN [i \in SVs |-> sorted_meas[so.inv_sort_order[i]].doppler]
                 ELSE [i \in SVs |-> [num |-> 0, den |-> 1]],
             \* est_clk = est_clk[inv_sort_order], est_trp, est_iono likewise
             b_sv_m |-> IF corrections
                        THEN sort_ind(corr.clock_corr, so.inv_sort_order)
                        ELSE NoFloats,
             tropo_delay_m |-> IF corrections
                               THEN sort_ind(corr.tropo_delay, so.inv_sort_order)
                               ELSE NoInts,
             iono_delay_m |-> IF corrections
                              THEN sort_ind(corr.iono_delay, so.inv_sort_order)
                              ELSE NoInts,
             \* if sv_posvel is not None:
             \*     sv_posvel = sv_posvel.sort(ind=sorted_sats_ind)
             sv |-> IF use_posvel
                    THEN sort_ind(sv_posvel_1.tbl, so.sorted_sats_ind)
                    ELSE NoFrame]]

\* lines 107-127 of the loop body: expected measures and corrections for
\* the sorted satellites; sv_posvel_0 is sv_posvel before expected_measures
add_measures_estimate(so, has_sv, sv_posvel_0, em, tow, pseudorange, doppler, corrections, iono_given) ==
    add_measures_frame(
        so, ~has_sv, em.measurements,
        IF pseudorange \/ doppler THEN Some(em.sv_posvel) ELSE sv_posvel_0,
        calculate_pseudorange_corr(tow, TRUE, so.rx_ephem, iono_given),
        pseudorange, doppler, corrections)

\* lines 78-105 of the loop body: the frame's SV state rows in sorted order
\* when it has them (sv_posvel.sort(ind=sorted_sats_ind)), else None
add_measures_sorted(so, has_sv, sv_posvel_0, tow, pseudorange, doppler, corrections, iono_given) ==
    add_measures_estimate(
        so, has_sv, sv_posvel_0,
        gm_expected_measures(tow, AmWeek, AmPos, AmVel, AmBias, AmDrift,
                             so.rx_ephem, sv_posvel_0),
        tow, pseudorange, doppler, corrections, iono_given)

\* the body of add_measures' loop for one measure_frame
add_measures_step(sv_id, has_sv, frame_sv, eph_by_id, tow, pseudorange, doppler, corrections, iono_given) ==
    add_measures_sorted(
        sort_ephem_measures(sv_id, eph_by_id), has_sv,
        IF has_sv
        THEN Some(sort_ind(frame_sv, np_argsort(sv_id)))
        ELSE None,
        tow, pseudorange, doppler, corrections, iono_given)

\* the orderings of the satellites in a measurement frame
AmOrders == {p \in [SVs -> SVs] : \A a, b \in SVs : a # b => p[a] # p[b]}

\* ephemeris by satellite id, every satellite with parameters of its own
AmEphemOf(r0) ==
    [s \in SVs |->
        [GPSWeek |-> AmWeek, t_oe |-> 0, M_0 |-> s, R |-> r0 + 2 * s, z |-> 6,
         t_oc |-> 0, SVclockBias |-> FNum(s), SVclockDrift |-> 1,
         SVclockDriftRate |-> 0, TGD |-> 1, e_sqrtA |-> 1,
         tropo |-> 2 + s, iono |-> 2 * s]]

AmEphems == {AmEphemOf(6), AmEphemOf(8)}

AmTimes == {10, 11}

AmIdle ==
    /\ am_pc = "idle"
    /\ am_sv_id = [s \in SVs |-> s]
    /\ am_has_sv = FALSE
    /\ am_frame_sv = NoFrame
    /\ am_ephem = AmEphemOf(0)
    /\ am_tow = 0
    /\ am_pseudorange = FALSE /\ am_doppler = FALSE
    /\ am_corrections = FALSE /\ am_iono_params = FALSE
    /\ am_est_frame = NoEstFrame

\* a frame of one time step; its SV state rows, when it has them, hold the
\* state of each column's satellite
InitAdd ==
    /\ am_pc = "idle"
    /\ am_sv_id \in AmOrders
    /\ am_has_sv \in BOOLEAN
    /\ am_ephem \in AmEphems
    /\ am_tow \in AmTimes
    /\ am_frame_sv =
           IF am_has_sv
           THEN [i \in SVs |->
                    find_sat_state(am_ephem[am_sv_id[i]], am_tow, AmWeek)]
           ELSE NoFrame
    /\ am_pseudorange \in BOOLEAN /\ am_doppler \in BOOLEAN
    /\ am_corrections \in BOOLEAN /\ am_iono_params \in BOOLEAN
    /\ am_est_frame = NoEstFrame

\* add_measures(measurements, ephemeris_path, iono_params, pseudorange,
\* doppler, corrections) on measurements of one time step
AddMeasures ==
    /\ am_pc = "idle"
    /\ LET r == add_measures_step(am_sv_id, am_has_sv, am_frame_sv, am_ephem,
                                  am_tow, am_pseudorange, am_doppler,
                                  am_corrections, am_iono_params)
       IN  /\ am_pc' = IF r.ok THEN "done" ELSE "error"
           /\ am_est_frame' = r.est_frame
    /\ UNCHANGED <<am_sv_id, am_has_sv, am_frame_sv, am_ephem, am_tow,
                   am_pseudorange, am_doppler, am_corrections, am_iono_params>>
    /\ UNCHANGED notAm

\* ------------------------------------------------------------------------
\* simulate_measures of core/measures.py and of utils/gnss_models.py
\* ------------------------------------------------------------------------
\* runs of simulate_measures in one behaviour
MaxRuns == 2

\* states of a numpy random Generator
RngMod == 4

RngStates == 0..(RngMod - 1)

\* the generator's state after one more draw
rng_next(g) == (5 * g + 3) % RngMod

RECURSIVE rng_advance(_, _)
\* the generator's state after k draws
rng_advance(g, k) == IF k = 0 THEN g ELSE rng_advance(rng_next(g), k - 1)

\* the k-th value of rng.standard_normal(...) for a generator in state g
standard_normal(g, k) == (rng_advance(g, k) % 3) - 1

\* a/b + n/d in lowest terms
FracAdd(f, n, d) == Frac(f.num * d + n * f.den, f.den * d)

\* sin(el_mask) for the default el_mask of 5 degrees, as MaskNum/MaskDen
MaskNum == 2
MaskDen == 23

\* find_elaz(rx_pos, sat_pos)[:, 0] > el_mask: the line of sight makes more
\* than el_mask with the horizontal plane of the receiver, whose vertical is
\* taken along rx_pos
above_mask(rx_pos, sat_pos) ==
    MaskDen * Dot(VSub(sat_pos, rx_pos), rx_pos)
        > MaskNum * Norm(VSub(sat_pos, rx_pos)) * Norm(rx_pos)

find_visible_sats_at_request_time(week, tow, rx_pos, eph_tbl) ==
    {s \in SVs :
        above_mask(rx_pos, SatPos(find_sat_state(eph_tbl[s], tow, week)))}

\* _find_visible_sats(gpsweek, gpstime, rx_ecef, ephem): the satellites kept
find_visible_sats(week, tow, rx_pos, eph_tbl) ==
    {s \in SVs :
        above_mask(rx_pos,
                   SatPos(find_sat_state(eph_tbl[s], tow - T_TRANS, week)))}

\* _find_visible_ephem(gps_millis, rx_ecef, ephem, el_mask) of sv_models
find_visible_ephem(week, tow, rx_pos, eph_tbl) ==
    find_visible_sats(week, tow, rx_pos, eph_tbl)

\* eph = ephem.loc[keep_ind, :] for an ephemeris whose rows are the
\* satellites of index, in that order: the rows the boolean mask keeps
find_visible_sats_rows(week, tow, rx_pos, eph_tbl, index) ==
    SelectSeq(index,
              LAMBDA s : s \in find_visible_sats(week, tow, rx_pos, eph_tbl))

\* the row of satellite s in the table of the satellites kept
row_of(keep, s) == Cardinality({t \in keep : t <= s})

\* expected_measures of core/measures.py from what _find_sat_location
\* returned
expected_measures_from(loc, rx_vel, clk_bias, clk_drift) ==
    expected_measures_core(loc.sat_posvel, loc.del_pos, loc.true_range,
                           rx_vel, clk_bias, clk_drift)

\* measurements['prange'] + prange_sigma*rng.standard_normal(M) and
\* measurements['doppler'] + doppler_sigma*rng.standard_normal(M), for the M
\* satellites kept and a generator in state g; doppler_sigma is dn/dd
add_noise(meas, keep, g, prange_sigma, dn, dd) ==
    [s \in SVs |->
        IF s \in keep
        THEN [present |-> TRUE,
              prange |-> meas[s].prange
                         + prange_sigma * standard_normal(g, row_of(keep, s)),
              doppler |-> FracAdd(meas[s].doppler,
                                  dn * standard_normal(
                                           g, Cardinality(keep) + row_of(keep, s)),
                                  dd)]
        ELSE [present |-> FALSE, prange |-> 0,
              doppler |-> [num |-> 0, den |-> 1]]]

\* simulate_measures(gpsweek, gpstime, ephem, pos, bias, b_dot, vel) of
\* core/measures.py with the default sigmas 6. and 0.1; fresh is the state
\* of the generator default_rng() returns
simulate_measures(week, tow, eph_tbl, rx_pos, clk_bias, clk_drift, rx_vel, fresh) ==
    add_noise(
        expected_measures_from(find_sat_location(eph_tbl, tow, week, rx_pos),
                               rx_vel, clk_bias, clk_drift),
        find_visible_sats(week, tow, rx_pos, eph_tbl),
        fresh, 6, 1, 10)

\* simulate_measures(gps_millis, state, ephem=ephem, rng=rng) of
\* gnss_models.py with the default noise_dict (6. and 1.); rng_opt is the
\* generator passed, fresh the one default_rng() returns
gm_simulate_measures(week, tow, eph_tbl, rx_pos, clk_bias, clk_drift, rx_vel, rng_opt, fresh) ==
    add_noise(
        gm_expected_measures(tow, week, rx_pos, rx_vel, clk_bias, clk_drift,
                             eph_tbl, None).measurements,
        find_visible_ephem(week, tow, rx_pos, eph_tbl),
        IF rng_opt.none THEN fresh ELSE rng_opt.state, 6, 1, 1)

NoRng == [none |-> TRUE, state |-> 0]

SomeRng(g) == [none |-> FALSE, state |-> g]

SmEphem == [SVs -> [GPSWeek : {AmWeek}, t_oe : {0}, M_0 : {0, 2},
                    R : {8}, z : {6}]]

SmTimes == {10}

SmIdle ==
    /\ sm_ephem = [s \in SVs |-> [GPSWeek |-> 0, t_oe |-> 0, M_0 |-> 0,
                                  R |-> 0, z |-> 0]]
    /\ sm_tow = 0
    /\ sm_rng = 0
    /\ sm_runs = <<>>

InitSim ==
    /\ sm_ephem \in SmEphem
    /\ sm_tow \in SmTimes
    /\ sm_rng \in RngStates
    /\ sm_runs = <<>>

\* the caller makes a generator with a seed of its choice: default_rng(seed)
SeedRng ==
    /\ \E seed \in RngStates : sm_rng' = seed
    /\ UNCHANGED <<sm_ephem, sm_tow, sm_runs>>
    /\ UNCHANGED notSm

\* a run of core/measures.py's simulate_measures: the function has no
\* parameter for a generator and draws from rng = default_rng()
SimulateMeasuresCore ==
    /\ Len(sm_runs) < MaxRuns
    /\ \E fresh \in RngStates :
          sm_runs' = Append(sm_runs,
              [fn |-> "core", rng_in |-> sm_rng, drawn_from |-> fresh,
               out |-> simulate_measures(AmWeek, sm_tow, sm_ephem, AmPos,
                                         AmBias, AmDrift, AmVel, fresh)])
    /\ UNCHANGED <<sm_ephem, sm_tow, sm_rng>>
    /\ UNCHANGED notSm

\* a run of gnss_models.py's simulate_measures with rng=sm_rng: the draws
\* advance the caller's generator
SimulateMeasuresRng ==
    /\ Len(sm_runs) < MaxRuns
    /\ sm_runs' = Append(sm_runs,
           [fn |-> "gnss_models", rng_in |-> sm_rng, drawn_from |-> sm_rng,
            out |-> gm_simulate_measures(AmWeek, sm_tow, sm_ephem, AmPos,
                                         AmBias, AmDrift, AmVel,
                                         SomeRng(sm_rng), 0)])
    /\ sm_rng' = rng_advance(sm_rng,
                     2 * Cardinality(find_visible_ephem(AmWeek, sm_tow, AmPos,
                                                        sm_ephem)))
    /\ UNCHANGED <<sm_ephem, sm_tow>>
    /\ UNCHANGED notSm

\* a run of gnss_models.py's simulate_measures with rng=None:
\* rng = default_rng()
SimulateMeasuresNoRng ==
    /\ Len(sm_runs) < MaxRuns
    /\ \E fresh \in RngStates :
          sm_runs' = Append(sm_runs,
              [fn |-> "gnss_models", rng_in |-> sm_rng, drawn_from |-> fresh,
               out |-> gm_simulate_measures(AmWeek, sm_tow, sm_ephem, AmPos,
                                            AmBias, AmDrift, AmVel,
                                            NoRng, fresh)])
    /\ UNCHANGED <<sm_ephem, sm_tow, sm_rng>>
    /\ UNCHANGED notSm

\* ------------------------------------------------------------------------
\* The receiver state argument of utils/gnss_models.py
\* ------------------------------------------------------------------------
\* columns a receiver state NavData may have
MaxCols == 2

\* _extract_state_variables(state) for a state of `cols` columns whose rows
\* hold the receiver state AmPos, AmVel, AmBias, AmDrift:
\* assert len(state)==1, then the rows of the state
extract_state_variables_no_assert(cols) ==
    [ok |-> TRUE, rx_ecef |-> AmPos, rx_v_ecef |-> AmVel,
     clk_bias |-> AmBias, clk_drift |-> AmDrift]

extract_state_variables(cols) ==
    [ok |-> cols = 1, rx_ecef |-> AmPos, rx_v_ecef |-> AmVel,
     clk_bias |-> AmBias, clk_drift |-> AmDrift]

\* _find_visible_sv_posvel(gps_millis, rx_ecef, sv_posvel, el_mask) of
\* sv_models: the satellites of the table above the mask
find_visible_sv_posvel(rx_pos, tbl) ==
    {s \in SVs : above_mask(rx_pos, SatPos(tbl[s]))}

NotCalled == "not called"
Raised == "raised"
Returned == "returned"

\* expected_measures(gps_millis, state, ephem, sv_posvel) from its first
\* statement, rx_ecef, ... = _extract_state_variables(state); sv_opt is None
\* when ephemeris is passed
gm_expected_measures_call(cols, tow, week, eph_tbl, sv_opt) ==
    IF ~extract_state_variables(cols).ok
    THEN [status |-> Raised, measurements |-> NoMeasurements]
    ELSE [status |-> Returned,
          measurements |->
              gm_expected_measures(tow, week,
                                   extract_state_variables(cols).rx_ecef,
                                   extract_state_variables(cols).rx_v_ecef,
                                   extract_state_variables(cols).clk_bias,
                                   extract_state_variables(cols).clk_drift,
                                   eph_tbl, sv_opt).measurements]

NoSimulated ==
    [s \in SVs |-> [present |-> FALSE, prange |-> 0,
                    doppler |-> [num |-> 0, den |-> 1]]]

\* simulate_measures(gps_millis, state, ephem=..., sv_posvel=..., rng=None)
\* of gnss_models.py from its first statement: lines 207-216 extract the
\* state and keep the visible satellites of the ephemeris, or of the
\* precomputed states when no ephemeris is passed
gm_simulate_measures_call(cols, tow, week, eph_tbl, sv_opt, fresh) ==
    IF ~extract_state_variables(cols).ok
    THEN [status |-> Raised, measurements |-> NoSimulated]
    ELSE [status |-> Returned,
          measurements |->
              add_noise(
                  gm_expected_measures_call(cols, tow, week, eph_tbl,
                                            sv_opt).measurements,
                  IF sv_opt.none
                  THEN find_visible_ephem(week, tow,
                           extract_state_variables(cols).rx_ecef, eph_tbl)
                  ELSE find_visible_sv_posvel(
                           extract_state_variables(cols).rx_ecef, sv_opt.tbl),
                  fresh, 6, 1, 1)]

CorrRaised ==
    [status |-> Raised, clock_corr |-> NoFloats, tropo_delay |-> NoInts,
     iono_delay |-> NoInts, warnings |-> {}]

\* the warnings calculate_pseudorange_corr emits, by the term zero-filled
corr_warnings(state_given, eph_given, iono_given) ==
    {w \in {"clock", "tropo", "iono"} :
        \/ w = "clock" /\ ~eph_given
        \/ w = "tropo" /\ ~state_given
        \/ w = "iono" /\ ~(iono_given /\ state_given)}

\* calculate_pseudorange_corr(gps_millis, state=None, ephem=None,
\* sv_posvel=None, iono_params=None); the precomputed states are those of
\* the satellites of eph_tbl, so a satellite's tropospheric and ionospheric
\* delay is the same from either input
calculate_pseudorange_corr_call_any(gps_tow, cols, state_given, eph_tbl, eph_given, sv_given, iono_given) ==
    IF state_given /\ ~extract_state_variables(cols).ok THEN CorrRaised
    ELSE [status |-> Returned,
          clock_corr |-> IF eph_given
                         THEN calculate_clock_delay(gps_tow, eph_tbl).clk_corr
                         ELSE NoFloats,
          tropo_delay |-> IF state_given THEN gm_calculate_tropo_delay(eph_tbl)
                          ELSE NoInts,
          iono_delay |-> IF iono_given /\ state_given
                         THEN gm_calculate_iono_delay(eph_tbl)
                         ELSE NoInts,
          warnings |-> corr_warnings(state_given, eph_given, iono_given)]

calculate_pseudorange_corr_call(gps_tow, cols, state_given, eph_tbl, eph_given, sv_given, iono_given) ==
    IF state_given /\ ~extract_state_variables(cols).ok THEN CorrRaised
    ELSE IF ~eph_given /\ ~sv_given THEN CorrRaised
    ELSE [status |-> Returned,
          clock_corr |-> IF eph_given
                         THEN calculate_clock_delay(gps_tow, eph_tbl).clk_corr
                         ELSE NoFloats,
          tropo_delay |-> IF state_given THEN gm_calculate_tropo_delay(eph_tbl)
                          ELSE NoInts,
          iono_delay |-> IF iono_given /\ state_given
                         THEN gm_calculate_iono_delay(eph_tbl)
                         ELSE NoInts,
          warnings |-> corr_warnings(state_given, eph_given, iono_given)]

\* the satellite states a caller precomputes from the ephemeris
StSvPosvel(eph_tbl, tow) ==
    [s \in SVs |-> find_sat_state(eph_tbl[s], tow, AmWeek)]

\* sv_posvel as expected_measures and simulate_measures receive it: None
\* when the ephemeris is passed
StSvOpt == IF st_eph_given THEN None ELSE Some(StSvPosvel(st_ephem, st_tow))

StNoExpected == [status |-> NotCalled, measurements |-> NoMeasurements]

StNoSimulated == [status |-> NotCalled, measurements |-> NoSimulated]

StNoCorr ==
    [status |-> NotCalled, clock_corr |-> NoFloats, tropo_delay |-> NoInts,
     iono_delay |-> NoInts, warnings |-> {}]

StNoVisible == [status |-> NotCalled, rows |-> <<>>]

\* the orders the rows of an ephemeris may be in
StIndexes == {<<1, 2, 3>>, <<3, 1, 2>>, <<2, 3, 1>>}

StIdle ==
    /\ st_cols = 1
    /\ st_state_given = TRUE /\ st_eph_given = TRUE
    /\ st_sv_given = FALSE /\ st_iono_given = FALSE
    /\ st_ephem = AmEphemOf(0)
    /\ st_tow = 0
    /\ st_expected = StNoExpected
    /\ st_simulated = StNoSimulated
    /\ st_corr = StNoCorr
    /\ st_index = <<>>
    /\ st_visible = StNoVisible

\* a receiver state of 0..MaxCols columns and any choice of the optional
\* arguments
InitState ==
    /\ st_cols \in 0..MaxCols
    /\ st_state_given \in BOOLEAN /\ st_eph_given \in BOOLEAN
    /\ st_sv_given \in BOOLEAN /\ st_iono_given \in BOOLEAN
    /\ st_ephem \in AmEphems
    /\ st_tow \in AmTimes
    /\ st_expected = StNoExpected
    /\ st_simulated = StNoSimulated
    /\ st_corr = StNoCorr
    /\ st_index \in StIndexes
    /\ st_visible = StNoVisible

\* _find_visible_sats(gpsweek, gpstime, rx_ecef, ephem) on the ephemeris
\* with its rows in the order st_index
StFindVisibleSats ==
    /\ st_visible.status = NotCalled
    /\ st_visible' = [status |-> Returned,
                      rows |-> find_visible_sats_rows(AmWeek, st_tow, AmPos,
                                                      st_ephem, st_index)]
    /\ UNCHANGED <<st_cols, st_state_given, st_eph_given, st_sv_given,
                   st_iono_given, st_ephem, st_tow, st_expected, st_simulated,
                   st_corr, st_index>>
    /\ UNCHANGED notSt

\* expected_measures(gps_millis, state, ephem, sv_posvel)
StExpectedMeasures ==
    /\ st_expected.status = NotCalled
    /\ st_expected' = gm_expected_measures_call(st_cols, st_tow, AmWeek,
                                                st_ephem, StSvOpt)
    /\ UNCHANGED <<st_cols, st_state_given, st_eph_given, st_sv_given,
                   st_iono_given, st_ephem, st_tow, st_simulated, st_corr,
                   st_index, st_visible>>
    /\ UNCHANGED notSt

\* simulate_measures(gps_millis, state, ephem, sv_posvel) with rng=None
StSimulateMeasures ==
    /\ st_simulated.status = NotCalled
    /\ \E fresh \in RngStates :
           st_simulated' = gm_simulate_measures_call(st_cols, st_tow, AmWeek,
                                                     st_ephem, StSvOpt, fresh)
    /\ UNCHANGED <<st_cols, st_state_given, st_eph_given, st_sv_given,
                   st_iono_given, st_ephem, st_tow, st_expected, st_corr,
                   st_index, st_visible>>
    /\ UNCHANGED notSt

\* calculate_pseudorange_corr(gps_millis, state, ephem, sv_posvel,
\* iono_params)
StCalculatePseudorangeCorr ==
    /\ st_corr.status = NotCalled
    /\ st_corr' = calculate_pseudorange_corr_call(
                      st_tow, st_cols, st_state_given, st_ephem, st_eph_given,
                      st_sv_given, st_iono_given)
    /\ UNCHANGED <<st_cols, st_state_given, st_eph_given, st_sv_given,
                   st_iono_given, st_ephem, st_tow, st_expected, st_simulated,
                   st_index, st_visible>>
    /\ UNCHANGED notSt

\* ------------------------------------------------------------------------
\* The Kepler solver of core/measures.py
\* ------------------------------------------------------------------------
\* angles and eccentricities are in hundredths (of a radian, of one)
KeplerScale == 100
PiF == 314

\* a / b rounded to the nearest integer, halves away from zero
RDiv(a, b) ==
    (IF (a >= 0) = (b > 0) THEN 1 ELSE -1)
        * ((2 * Abs(a) + Abs(b)) \div (2 * Abs(b)))

\* sin on [0, pi] to the resolution of the arithmetic
SinHalfTurn(x) ==
    RDiv(16 * x * (PiF - x) * KeplerScale,
         5 * PiF * PiF - 4 * x * (PiF - x))

\* np.sin(E)
SinF(x) ==
    IF x % (2 * PiF) <= PiF THEN SinHalfTurn(x % (2 * PiF))
    ELSE -SinHalfTurn((x % (2 * PiF)) - PiF)

\* np.cos(E)
CosF(x) == SinF(x + PiF \div 2)

\* tol=1e-5 and max_iter=10; the tolerance in the unit of the arithmetic
tol == 2
max_iter == 10

newton_step_cos(M, E, e) ==
    RDiv(-(M - E + RDiv(e * CosF(E), KeplerScale)) * KeplerScale,
         RDiv(e * CosF(E), KeplerScale) - KeplerScale)

\* f = M - E + e * np.sin(E); dfdE = e*np.cos(E) - 1.; dE = -f / dfdE
newton_step(M, E, e) ==
    RDiv(-(M - E + RDiv(e * SinF(E), KeplerScale)) * KeplerScale,
         RDiv(e * CosF(E), KeplerScale) - KeplerScale)

kepler_loop_continues_until_converged(iter, dE) ==
    /\ iter < max_iter
    /\ iter > 0 => \E s \in SVs : Abs(dE[s]) > tol

\* for _ in np.arange(0, max_iter): after iter updates with last step dE
kepler_loop_continues(iter, dE) == iter < max_iter

\* any(dE.iloc[:] > tol)
kepler_warns(dE) == \E s \in SVs : dE[s] > tol

\* mean anomaly and eccentricity of a satellite
KpInputs == {<<0, 0>>, <<0, 50>>, <<100, 50>>, <<10, 99>>, <<618, 99>>}

KpIdle ==
    /\ kp_M = NoInts /\ kp_e = NoInts
    /\ kp_E = NoInts /\ kp_dE = NoInts
    /\ kp_iter = 0
    /\ kp_pc = "idle"
    /\ kp_warned = FALSE

InitKepler ==
    /\ \E a \in [SVs -> KpInputs] :
          /\ kp_M = [s \in SVs |-> a[s][1]]
          /\ kp_e = [s \in SVs |-> a[s][2]]
    /\ kp_E = NoInts /\ kp_dE = NoInts
    /\ kp_iter = 0
    /\ kp_pc = "call"
    /\ kp_warned = FALSE

\* E = M
KpInitialGuess ==
    /\ kp_pc = "call"
    /\ kp_E' = kp_M
    /\ kp_pc' = "loop"
    /\ UNCHANGED <<kp_M, kp_e, kp_dE, kp_iter, kp_warned>>
    /\ UNCHANGED notKp

\* one pass of the loop body: dE = -f / dfdE; E = E + dE
KpNewtonStep ==
    /\ kp_pc = "loop"
    /\ kepler_loop_continues(kp_iter, kp_dE)
    /\ kp_dE' = [s \in SVs |-> newton_step(kp_M[s], kp_E[s], kp_e[s])]
    /\ kp_E' = [s \in SVs |->
                   kp_E[s] + newton_step(kp_M[s], kp_E[s], kp_e[s])]
    /\ kp_iter' = kp_iter + 1
    /\ UNCHANGED <<kp_M, kp_e, kp_pc, kp_warned>>
    /\ UNCHANGED notKp

\* the loop is left: if any(dE.iloc[:] > tol): print(...); return E
KpReturn ==
    /\ kp_pc = "loop"
    /\ ~kepler_loop_continues(kp_iter, kp_dE)
    /\ kp_warned' = kepler_warns(kp_dE)
    /\ kp_pc' = "done"
    /\ UNCHANGED <<kp_M, kp_e, kp_E, kp_dE, kp_iter>>
    /\ UNCHANGED notKp

\* ------------------------------------------------------------------------
\* Tropospheric delay
\* ------------------------------------------------------------------------
\* c_1 = 2.47 and c_2 = 0.0121 in hundredths; c_3 = 1.33e-4 per metre is one
\* hundredth per unit of height
TROPO_DELAY_C1 == 247
TROPO_DELAY_C2 == 1
TROPO_DELAY_C3 == 1

\* np.exp(y), y in hundredths
ExpF(y) ==
    IF y >= 0 THEN KeplerScale + y + RDiv(y * y, 2 * KeplerScale)
    ELSE RDiv(KeplerScale * KeplerScale,
              KeplerScale - y + RDiv(y * y, 2 * KeplerScale))

tropo_height_unclamped(height) == height

\* ind = np.argwhere(height < 0).flatten(); height[ind] = 0
tropo_height(height) == IF height < 0 THEN 0 ELSE height

\* c_1/(np.sin(el_r)+c_2) * np.exp(-height*c_3)/C for the height after the
\* clamp (measures.py), in seconds
tropo_delay_seconds(el_r, height) ==
    RDiv(RDiv(RDiv(TROPO_DELAY_C1 * KeplerScale,
                   SinF(el_r) + TROPO_DELAY_C2)
              * ExpF(-height * TROPO_DELAY_C3),
              KeplerScale),
         C)

\* calculate_tropo_delay(gpstime, gpsweek, ephem, rx_ecef) of
\* core/measures.py for satellites at the elevations el and a receiver at
\* the geodetic height given
core_calculate_tropo_delay(el, height) ==
    [s \in SVs |-> tropo_delay_seconds(el[s], tropo_height(height))]

\* _calculate_tropo_delay(gps_millis, rx_ecef, ephem, sv_posvel) of
\* gnss_models.py: the same delay, tropo_delay = consts.C*tropo_delay
gm_calculate_tropo_delay_at(el, height) ==
    [s \in SVs |-> C * tropo_delay_seconds(el[s], tropo_height(height))]

\* elevations and azimuths of the satellites, in hundredths of a radian
AtGeometries ==
    {[el |-> <<5, 80, 157>>, az |-> <<0, 157, 314>>],
     [el |-> <<30, 100, 10>>, az |-> <<471, 50, 200>>]}

AtHeights == {-40, 0, 40}

AtNoDelay == [status |-> NotCalled, delay |-> NoInts]

\* ------------------------------------------------------------------------
\* Klobuchar ionospheric delay of utils/gnss_models.py
\* ------------------------------------------------------------------------
\* angles in hundredths of a radian, latitudes in semicircles in hundredths,
\* times in seconds, amplitudes and delays in 1e-10 s
\* 1.3090, 86400 and 72000
LAT_I_MAX == 131
DAYSEC == 86400
PERIOD_MIN == 72000

\* psi = 0.1356/(el_r+0.346) - 0.0691
klob_psi(el_r) == RDiv(14 * KeplerScale, el_r + 35) - 7

\* lat_i = lat_r + psi * np.cos(az_r)
klob_lat_i(lat_r, el_r, az_r) ==
    lat_r + RDiv(klob_psi(el_r) * CosF(az_r), KeplerScale)

\* lat_i[ind] = 1.3090 * np.sign(lat_i[ind]) where np.abs(lat_i) > 1.3090
klob_lat_i_bounded(lat_i) ==
    IF Abs(lat_i) > LAT_I_MAX THEN LAT_I_MAX * Sign(lat_i) ELSE lat_i

\* lon_i = lon_r + psi * np.sin(az_r)/np.cos(lat_i)
klob_lon_i(lon_r, el_r, az_r, lat_i) ==
    lon_r + RDiv(klob_psi(el_r) * SinF(az_r), CosF(lat_i))

\* solar_time = 1.3751e4 * lon_i + gps_tow
klob_solar_time(lon_i, gps_tow) == RDiv(13751 * lon_i, KeplerScale) + gps_tow

\* solar_time = np.mod(solar_time,86400)
klob_solar_time_bounded(solar_time) == solar_time % DAYSEC

\* lat_m = (lat_i + 2.02e-1 * np.cos(lon_i - 5.08))/np.pi
klob_lat_m(lat_i, lon_i) ==
    RDiv((lat_i + RDiv(20 * CosF(lon_i - 508), KeplerScale)) * KeplerScale,
         PiF)

\* c[0]+c[1]*lat_m+c[2]*lat_m**2+c[3]*lat_m**3
klob_cubic(c, lat_m) ==
    c[1] + RDiv(c[2] * lat_m, 100) + RDiv(c[3] * lat_m * lat_m, 10000)
         + RDiv(c[4] * RDiv(lat_m * lat_m * lat_m, 100), 10000)

klob_period_unbounded(period) == period

\* period[ind] = 72000 where period < 72000
klob_period_bounded(period) ==
    IF period < PERIOD_MIN THEN PERIOD_MIN ELSE period

\* amp[ind] = 0 where amp < 0
klob_amp_bounded(amp) == IF amp < 0 THEN 0 ELSE amp

\* theta = 2*np.pi*(solar_time - 50400) / period
klob_theta(solar_time, period) == RDiv(2 * PiF * (solar_time - 50400), period)

\* the slant factor is kept to 1e-4
SlantScale == 10000

\* (1.6755-el_r)**3 to 1e-4, for the difference d = 1.6755-el_r in 1e-4
klob_cube(d) == RDiv(RDiv(d * d, SlantScale) * d, SlantScale)

klob_slant_fact_unity_at_zenith(el_r) ==
    SlantScale + RDiv(516 * klob_cube(15700 - 100 * el_r), 1000)

\* slant_fact = 1.0 + 5.16e-1 * (1.6755-el_r)**3
klob_slant_fact(el_r) ==
    SlantScale + RDiv(516 * klob_cube(16755 - 100 * el_r), 1000)

\* 1-theta**2/2.+theta**4/24.
klob_cos_series(theta) ==
    KeplerScale - RDiv(theta * theta, 200)
        + RDiv(RDiv(theta * theta, 100) * RDiv(theta * theta, 100), 2400)

\* iono_delay = slant_fact * 5.0e-9, and slant_fact*(5e-9+amp*(1-theta**2/2.
\* +theta**4/24.)) where np.abs(theta) < np.pi/2.; then consts.C*iono_delay
klob_iono_delay(slant_fact, amp, theta) ==
    C * (IF Abs(theta) < PiF \div 2
         THEN RDiv(slant_fact
                   * (50 + RDiv(amp * klob_cos_series(theta), KeplerScale)),
                   SlantScale)
         ELSE RDiv(slant_fact * 50, SlantScale))

\* what a satellite's delay is computed from, and the delay
klob_values(el_r, lat_i, solar_time, period, amp) ==
    [lat_i |-> lat_i, solar_time |-> solar_time, period |-> period,
     amp |-> amp, slant_fact |-> klob_slant_fact(el_r),
     iono_delay |-> klob_iono_delay(klob_slant_fact(el_r), amp,
                                    klob_theta(solar_time, period))]

\* the values of a satellite from the geomagnetic latitude on
klob_from_lat_m(iono_params, el_r, lat_i, solar_time, lat_m) ==
    klob_values(el_r, lat_i, solar_time,
                klob_period_bounded(klob_cubic(iono_params.beta, lat_m)),
                klob_amp_bounded(klob_cubic(iono_params.alpha, lat_m)))

\* the values of a satellite from the pierce-point longitude on
klob_from_lon_i(gps_tow, iono_params, el_r, lat_i, lon_i) ==
    klob_from_lat_m(iono_params, el_r, lat_i,
                    klob_solar_time_bounded(klob_solar_time(lon_i, gps_tow)),
                    klob_lat_m(lat_i, lon_i))

\* the values of a satellite from the bounded pierce-point latitude on
klob_from_lat_i(gps_tow, iono_params, lon_r, el_r, az_r, lat_i) ==
    klob_from_lon_i(gps_tow, iono_params, el_r, lat_i,
                    klob_lon_i(lon_r, el_r, az_r, lat_i))

\* _calculate_iono_delay(gps_millis, iono_params, rx_ecef, ephem, sv_posvel)
\* for a receiver at lat_r, lon_r and satellites at el, az: per satellite the
\* values used and the delay
calculate_iono_delay(gps_tow, iono_params, lat_r, lon_r, el, az) ==
    [s \in SVs |->
        klob_from_lat_i(gps_tow, iono_params, lon_r, el[s], az[s],
                        klob_lat_i_bounded(klob_lat_i(lat_r, el[s], az[s])))]

\* broadcast coefficients: alpha in 1e-10 s, beta in seconds
AtIonoParams ==
    {[alpha |-> <<110, 150, -600, -1200>>,
      beta |-> <<90000, 16000, -130000, -200000>>],
     [alpha |-> <<-50, 100, 0, 0>>, beta |-> <<70000, 50000, 0, 0>>]}

AtNoIono ==
    [status |-> NotCalled,
     values |-> [s \in SVs |->
                    [lat_i |-> 0, solar_time |-> 0, period |-> PERIOD_MIN,
                     amp |-> 0, slant_fact |-> SlantScale,
                     iono_delay |-> 0]]]

AtIdle ==
    /\ at_height = 0 /\ at_lat_r = 0 /\ at_lon_r = 0 /\ at_tow = 0
    /\ at_iono_params = [alpha |-> <<0, 0, 0, 0>>, beta |-> <<0, 0, 0, 0>>]
    /\ at_el = NoInts /\ at_az = NoInts
    /\ at_tropo_core = AtNoDelay /\ at_tropo_gm = AtNoDelay
    /\ at_iono = AtNoIono

\* a receiver below, at or above the ellipsoid, at low or high latitude
InitAtmosphere ==
    /\ at_height \in AtHeights
    /\ at_lat_r \in {-150, 0, 150}
    /\ at_lon_r \in {-300, 100}
    /\ at_tow \in {100, 80000}
    /\ at_iono_params \in AtIonoParams
    /\ \E geo \in AtGeometries : at_el = geo.el /\ at_az = geo.az
    /\ at_tropo_core = AtNoDelay /\ at_tropo_gm = AtNoDelay
    /\ at_iono = AtNoIono

\* calculate_tropo_delay(gpstime, gpsweek, ephem, rx_ecef) of core/measures.py
AtCoreTropoDelay ==
    /\ at_tropo_core.status = NotCalled
    /\ at_tropo_core' = [status |-> Returned,
                         delay |-> core_calculate_tropo_delay(at_el, at_height)]
    /\ UNCHANGED <<at_height, at_lat_r, at_lon_r, at_tow, at_iono_params,
                   at_el, at_az, at_tropo_gm, at_iono>>
    /\ UNCHANGED notAt

\* _calculate_tropo_delay(gps_millis, rx_ecef, ephem, sv_posvel)
AtGmTropoDelay ==
    /\ at_tropo_gm.status = NotCalled
    /\ at_tropo_gm' = [status |-> Returned,
                       delay |-> gm_calculate_tropo_delay_at(at_el, at_height)]
    /\ UNCHANGED <<at_height, at_lat_r, at_lon_r, at_tow, at_iono_params,
                   at_el, at_az, at_tropo_core, at_iono>>
    /\ UNCHANGED notAt

\* _calculate_iono_delay(gps_millis, iono_params, rx_ecef, ephem, sv_posvel)
AtIonoDelay ==
    /\ at_iono.status = NotCalled
    /\ at_iono' = [status |-> Returned,
                   values |-> calculate_iono_delay(at_tow, at_iono_params,
                                                   at_lat_r, at_lon_r, at_el,
                                                   at_az)]
    /\ UNCHANGED <<at_height, at_lat_r, at_lon_r, at_tow, at_iono_params,
                   at_el, at_az, at_tropo_core, at_tropo_gm>>
    /\ UNCHANGED notAt

\* ------------------------------------------------------------------------
\* NavData of parsers/navdata.py
\* ------------------------------------------------------------------------
\* row names, string values in the order np.unique sorts them, and the
\* number of columns of the rows assigned
Names == {"a", "b", "c"}
Strs == <<"x", "y">>
NumCols == 2

\* float32 holds the integers up to F32Exact in magnitude and every second
\* integer above
F32Exact == 4

\* .astype(np.float32)
F32(v) == IF Abs(v) <= F32Exact THEN v ELSE 2 * RDiv(v, 2)

\* a value written into an array of the dtype given
Stored(v, dtype) == IF dtype = "float32" THEN F32(v) ELSE v

\* a dict as the sequence of its items in insertion order
DictKeys(d) == {d[i].key : i \in DOMAIN d}

DictGet(d, k) == (CHOOSE i \in DOMAIN d : d[i].key = k)

\* d[k] = v: an existing key keeps its place, a new key goes last
DictSet(d, k, v) ==
    IF k \in DictKeys(d)
    THEN [i \in DOMAIN d |-> IF d[i].key = k THEN [key |-> k, val |-> v]
                             ELSE d[i]]
    ELSE Append(d, [key |-> k, val |-> v])

\* del d[k]
DictDel(d, k) == SelectSeq(d, LAMBDA item : item.key # k)

\* NavData(): build_navdata sets array = np.zeros((0,0), dtype=float32)
EmptyNavData ==
    [array |-> <<>>, ncols |-> 0, dtype |-> "float32", map |-> <<>>,
     str_map |-> <<>>]

\* self.map[key] and self.str_map[key]
nd_row(x, key) == x.map[DictGet(x.map, key)].val

nd_strs(x, key) == x.str_map[DictGet(x.str_map, key)].val

\* np.unique(new_value): the strings of the row, sorted
np_unique(strs) ==
    SelectSeq(Strs, LAMBDA str : \E i \in DOMAIN strs : strs[i] = str)

\* the place of a string in a string map, from 0
str_code(codes, str) == (CHOOSE i \in DOMAIN codes : codes[i] = str) - 1

\* _str_2_val for a key that is in self.map: strings not in the row's
\* dictionary are added after its entries
str_map_updated(codes, strs) ==
    codes \o SelectSeq(np_unique(strs),
                       LAMBDA str : \A i \in DOMAIN codes : codes[i] # str)

\* __setitem__(key, new_value) for a name that is not a row and numeric
\* values: the first row is stored as float32, np.vstack with np.empty
\* makes the array float64
setitem_new_numeric(x, key, vals) ==
    [array |-> IF x.array = <<>> /\ x.ncols = 0
               THEN << [i \in DOMAIN vals |-> F32(vals[i])] >>
               ELSE Append(x.array, vals),
     ncols |-> IF x.array = <<>> /\ x.ncols = 0 THEN Len(vals) ELSE x.ncols,
     dtype |-> IF x.array = <<>> /\ x.ncols = 0 THEN "float32" ELSE "float64",
     map |-> DictSet(x.map, key, Len(x.array)),
     str_map |-> DictSet(x.str_map, key, <<>>)]

\* __setitem__(key, new_value) for a name that is not a row and an array of
\* strings: the codes of _str_2_val are stacked under the array
setitem_new_string(x, key, strs) ==
    [array |-> Append(x.array,
                      [i \in DOMAIN strs |-> str_code(np_unique(strs), strs[i])]),
     ncols |-> IF x.array = <<>> /\ x.ncols = 0 THEN Len(strs) ELSE x.ncols,
     dtype |-> IF x.array = <<>> /\ x.ncols = 0 THEN "float32" ELSE x.dtype,
     map |-> DictSet(x.map, key, Len(x.array)),
     str_map |-> DictSet(x.str_map, key, np_unique(strs))]

\* __setitem__(key, new_value) for a row of the instance and numeric values:
\* _get_set_str_rows empties the row's string map, the values are written
\* into the array
setitem_update_numeric(x, key, vals) ==
    [x EXCEPT !.array[nd_row(x, key) + 1] =
                  [i \in DOMAIN vals |-> Stored(vals[i], x.dtype)],
              !.str_map = DictSet(x.str_map, key, <<>>)]

\* __setitem__(key, new_value) for a row of the instance and an array of
\* strings
setitem_update_string(x, key, strs) ==
    [x EXCEPT !.array[nd_row(x, key) + 1] =
                  [i \in DOMAIN strs |->
                      str_code(str_map_updated(nd_strs(x, key), strs), strs[i])],
              !.str_map = DictSet(x.str_map, key,
                                  str_map_updated(nd_strs(x, key), strs))]

\* self[key] = new_value for a row name; strings tells an ndarray of
\* strings from numeric values
setitem(x, key, vals, strings) ==
    IF key \notin DictKeys(x.map)
    THEN IF strings THEN setitem_new_string(x, key, vals)
         ELSE setitem_new_numeric(x, key, vals)
    ELSE IF strings THEN setitem_update_string(x, key, vals)
         ELSE setitem_update_numeric(x, key, vals)

\* self.rows: the keys of self.map in the order of the dict
nd_rows(x) == [i \in DOMAIN x.map |-> x.map[i].key]

\* _row_idx_str_bool at the row: whether its string map has entries
is_str(x, key) == nd_strs(x, key) # <<>>

\* get_strings: the codes of the row through its string map
get_strings(x, key) ==
    [c \in 1..x.ncols |-> nd_strs(x, key)[x.array[nd_row(x, key) + 1][c] + 1]]

\* self[key, cols]: the strings of a string row, the numbers of a numeric
\* row, at the columns given
getitem(x, key, cols) ==
    [i \in DOMAIN cols |->
        IF is_str(x, key) THEN get_strings(x, key)[cols[i]]
        ELSE x.array[nd_row(x, key) + 1][cols[i]]]

AllCols(x) == [c \in 1..x.ncols |-> c]

\* the loop of copy and of remove: new_navdata[key] = self[key, cols] for the
\* rows given, from the i-th on
RECURSIVE copy_rows(_, _, _, _, _)
copy_rows(x, new_navdata, rows, cols, i) ==
    IF i > Len(rows) THEN new_navdata
    ELSE copy_rows(x,
                   setitem(new_navdata, rows[i], getitem(x, rows[i], cols),
                           is_str(x, rows[i])),
                   rows, cols, i + 1)

\* copy(rows=None, cols): a new NavData built row by row
copy(x, cols) == copy_rows(x, EmptyNavData, nd_rows(x), cols, 1)

\* the mapper of rename applied to the values of a row
remapped(vals, mapper) ==
    [i \in DOMAIN vals |->
        IF mapper # <<>> /\ vals[i] = mapper[1].key THEN mapper[1].val
        ELSE vals[i]]

\* list(self[row]) with the mapper applied; the strings of a string row
\* are none of the mapper's old values
remap_values(x, key, mapper) ==
    IF is_str(x, key) THEN getitem(x, key, AllCols(x))
    ELSE remapped(getitem(x, key, AllCols(x)), mapper)

\* rename's loop over remap_rows with inplace=True: self[row] = the row's
\* values remapped
RECURSIVE remap_inplace(_, _, _, _)
remap_inplace(x, rows, mapper, i) ==
    IF i > Len(rows) THEN x
    ELSE remap_inplace(setitem(x, rows[i], remap_values(x, rows[i], mapper),
                               is_str(x, rows[i])),
                       rows, mapper, i + 1)

\* rename's loop over remap_rows with inplace=False: new_navdata[row] = the
\* values of self[row] remapped
RECURSIVE remap_copy(_, _, _, _, _)
remap_copy(x, new_navdata, rows, mapper, i) ==
    IF i > Len(rows) THEN new_navdata
    ELSE remap_copy(x,
                    setitem(new_navdata, rows[i],
                            remap_values(x, rows[i], mapper),
                            is_str(x, rows[i])),
                    rows, mapper, i + 1)

\* remap_rows = self.rows if rows is None else rows
remap_rows(x, rows) ==
    IF rows = <<>> THEN nd_rows(x) ELSE [i \in DOMAIN rows |-> rows[i].key]

\* a new row name that is not a string
NotAString == "5"

\* map[new_name] = map.pop(old_name) and the same for str_map
rename_row(x, old_name, new_name) ==
    [x EXCEPT !.map = DictSet(DictDel(x.map, old_name), new_name,
                              nd_row(x, old_name)),
              !.str_map = DictSet(DictDel(x.str_map, old_name), new_name,
                                  nd_strs(x, old_name))]

\* rename's loop over rows.items(), from the i-th item on: a new name that
\* is not a string raises TypeError where the loop meets it
RECURSIVE rename_rows(_, _, _)
rename_rows(x, rows, i) ==
    IF i > Len(rows) THEN [nav |-> x, raised |-> "no"]
    ELSE IF rows[i].val = NotAString THEN [nav |-> x, raised |-> "TypeError"]
    ELSE rename_rows(rename_row(x, rows[i].key, rows[i].val), rows, i + 1)

\* the NavData rename works on, after the mapper: the instance, or a copy
rename_target(x, mapper, rows, inplace) ==
    IF mapper = <<>> THEN (IF inplace THEN x ELSE copy(x, AllCols(x)))
    ELSE IF inplace THEN remap_inplace(x, remap_rows(x, rows), mapper, 1)
    ELSE remap_copy(x, copy(x, AllCols(x)), remap_rows(x, rows), mapper, 1)

\* return None if inplace, else new_navdata
rename_result(x, renamed, inplace) ==
    [self |-> IF inplace THEN renamed.nav ELSE x,
     ret |-> IF inplace \/ renamed.raised # "no" THEN <<>> ELSE <<renamed.nav>>,
     raised |-> renamed.raised]

\* rename(mapper, rows, inplace) for a rows dictionary: the instance after
\* the call, what the call returned and whether it raised; an argument of
\* the wrong type raises TypeError and an old name that is not a row raises
\* KeyError before anything is done
rename(x, arg_types, mapper, rows, inplace) ==
    IF arg_types # "ok"
    THEN [self |-> x, ret |-> <<>>, raised |-> "TypeError"]
    ELSE IF \E i \in DOMAIN rows : rows[i].key \notin DictKeys(x.map)
    THEN [self |-> x, ret |-> <<>>, raised |-> "KeyError"]
    ELSE rename_result(x,
                       rename_rows(rename_target(x, mapper, rows, inplace),
                                   rows, 1),
                       inplace)

\* the place of the i-th item of a dict in sorted(d, key=lambda k: d[k]),
\* which keeps the dict's order among equal indices
sorted_place(d, i) ==
    1 + Cardinality({j \in DOMAIN d :
                        d[j].val < d[i].val \/ (d[j].val = d[i].val /\ j < i)})

\* remove's reindexing of self.map: the keys sorted by their index, numbered
\* from 0
reindexed(d) ==
    [p \in DOMAIN d |->
        [key |-> d[CHOOSE i \in DOMAIN d : sorted_place(d, i) = p].key,
         val |-> p - 1]]

\* the elements of a sequence at the places that are not in the set, in order
RECURSIVE np_delete(_, _, _)
np_delete(seq, places, i) ==
    IF i > Len(seq) THEN <<>>
    ELSE (IF i \in places THEN <<>> ELSE <<seq[i]>>)
         \o np_delete(seq, places, i + 1)

\* remove(rows, cols, inplace=True): the rows and columns are deleted from
\* the array, the names from map and str_map, and the map is reindexed
remove_inplace(x, rows, cols) ==
    [array |-> [r \in DOMAIN np_delete(x.array,
                                       {nd_row(x, key) + 1 : key \in rows}, 1) |->
                   np_delete(np_delete(x.array,
                                       {nd_row(x, key) + 1 : key \in rows}, 1)[r],
                             cols, 1)],
     ncols |-> x.ncols - Cardinality(cols),
     dtype |-> x.dtype,
     map |-> reindexed(SelectSeq(x.map, LAMBDA item : item.key \notin rows)),
     str_map |-> SelectSeq(x.str_map, LAMBDA item : item.key \notin rows)]

\* remove(rows, cols, inplace=False): a new NavData built from the rows and
\* columns kept
remove_copy(x, rows, cols) ==
    copy_rows(x, EmptyNavData,
              SelectSeq(nd_rows(x), LAMBDA key : key \notin rows),
              np_delete(AllCols(x), cols, 1), 1)

\* remove(rows, cols, inplace): a name that is not a row, or a column beyond
\* the last, raises KeyError before anything is done
remove(x, rows, cols, inplace) ==
    IF (\E key \in rows : key \notin DictKeys(x.map))
       \/ (\E c \in cols : c > x.ncols)
    THEN [self |-> x, ret |-> <<>>, raised |-> "KeyError"]
    ELSE IF inplace
    THEN [self |-> remove_inplace(x, rows, cols), ret |-> <<>>, raised |-> "no"]
    ELSE [self |-> x, ret |-> <<remove_copy(x, rows, cols)>>, raised |-> "no"]

\* the conditions of argwhere on a numeric row
Conditions == {"eq", "leq", "geq", "greater", "lesser", "between"}

\* whether a stored number meets the condition; value is a sequence of one
\* number, or of the two limits of between
condition_holds(entry, value, condition) ==
    CASE condition = "eq" -> entry = value[1]
      [] condition = "leq" -> entry <= value[1]
      [] condition = "geq" -> entry >= value[1]
      [] condition = "greater" -> entry > value[1]
      [] condition = "lesser" -> entry < value[1]
      [] condition = "between" -> entry >= value[1] /\ entry <= value[2]

\* argwhere on a string row: new_cols is assigned only when the value is an
\* entry of the row's string map, and np.squeeze(new_cols) is reached with
\* the name unbound otherwise
argwhere_string(x, key, value, condition) ==
    IF condition # "eq" THEN [cols |-> <<>>, raised |-> "ValueError"]
    ELSE IF \A i \in DOMAIN nd_strs(x, key) : nd_strs(x, key)[i] # value[1]
    THEN [cols |-> <<>>, raised |-> "UnboundLocalError"]
    ELSE [cols |-> SelectSeq(AllCols(x),
                             LAMBDA c :
                                 x.array[nd_row(x, key) + 1][c]
                                     = str_code(nd_strs(x, key), value[1])),
          raised |-> "no"]

\* argwhere on a numeric row
argwhere_numeric(x, key, value, condition) ==
    IF condition \notin Conditions THEN [cols |-> <<>>, raised |-> "ValueError"]
    ELSE [cols |-> SelectSeq(AllCols(x),
                             LAMBDA c :
                                 condition_holds(x.array[nd_row(x, key) + 1][c],
                                                 value, condition)),
          raised |-> "no"]

\* argwhere(key_idx, value, condition)
argwhere(x, key, value, condition) ==
    IF is_str(x, key) THEN argwhere_string(x, key, value, condition)
    ELSE argwhere_numeric(x, key, value, condition)

\* where(key_idx, value, condition): self.copy(cols=self.argwhere(...))
where_result(x, found) ==
    [ret |-> IF found.raised = "no" THEN <<copy(x, found.cols)>> ELSE <<>>,
     cols |-> found.cols, raised |-> found.raised]

where(x, key, value, condition) ==
    where_result(x, argwhere(x, key, value, condition))

\* 10**(-tol_decimals) in the unit of the times stored
TolUnit == 2

\* np.around(times, decimals=tol_decimals): to the nearest multiple of
\* TolUnit, a half to the even multiple
np_around(v) ==
    IF v % TolUnit = 0 THEN v
    ELSE IF (v \div TolUnit) % 2 = 0 THEN TolUnit * (v \div TolUnit)
    ELSE TolUnit * ((v \div TolUnit) + 1)

\* np.sort(np.unique(...)) of a set of numbers
RECURSIVE np_sort(_)
np_sort(S) ==
    IF S = {} THEN <<>>
    ELSE <<CHOOSE v \in S : \A w \in S : v <= w>>
         \o np_sort(S \ {CHOOSE v \in S : \A w \in S : v <= w})

\* times_unique of loop_time
times_unique(x, time_row) ==
    np_sort({np_around(x.array[nd_row(x, time_row) + 1][c]) : c \in 1..x.ncols})

\* what loop_time yields: for every unique rounded time, delta_t and the
\* columns of where(time_row, [time - tol, time + tol], "between")
loop_time_yields(x, time_row, times) ==
    [i \in DOMAIN times |->
        [time |-> times[i],
         delta_t |-> IF i = 1 THEN 0 ELSE times[i] - times[i - 1],
         cols |-> argwhere(x, time_row,
                           <<times[i] - TolUnit, times[i] + TolUnit>>,
                           "between").cols]]

loop_time(x, time_row) == loop_time_yields(x, time_row, times_unique(x, time_row))

\* the calls made on the instance and the loops over it
NdMaxOps == 3
Loops == {1, 2}

\* the rows assigned: numbers and strings, cut to the number of columns
NdNumbers == {<<0, 2>>, <<5, 1>>, <<2, 2>>}
NdStrings == {<<"x", "y">>, <<"y", "y">>, <<"x", "x">>}
NdValues(strings, n) ==
    {SubSeq(q, 1, n) : q \in (IF strings THEN NdStrings ELSE NdNumbers)}

\* the names rows are created under; "c" is a name rows are renamed to
NdKeys == {"a", "b"}

\* the rows dictionaries and mappers of rename
RenameRows ==
    {<<>>}
    \cup {<<[key |-> o, val |-> n]>> : o \in Names, n \in Names \cup {NotAString}}
    \cup {<<[key |-> "a", val |-> n1], [key |-> "b", val |-> n2]>> :
             n1 \in {"c", "b"}, n2 \in {"a", NotAString}}
RenameMappers == {<<>>, <<[key |-> 2, val |-> 1]>>}
RenameArgTypes == {"ok", "mapper", "rows", "inplace"}

\* the rows and columns of remove
RemoveRows == {{}, {"a"}, {"b"}, {"c"}, {"a", "b"}}
RemoveCols == {{}, {1}, {NumCols + 1}}

\* the values and conditions of where
WhereNumeric ==
    {[value |-> <<2>>, condition |-> c] :
        c \in {"eq", "leq", "geq", "greater", "lesser", "neq"}}
    \cup {[value |-> <<1, 5>>, condition |-> "between"]}
WhereString ==
    {[value |-> <<str>>, condition |-> c] : str \in {"x", "y"}, c \in {"eq", "leq"}}

NoCall ==
    [op |-> "none", arg_types |-> "ok", mapper |-> <<>>, rows |-> <<>>,
     names |-> {}, cols |-> {}, inplace |-> FALSE, key |-> "", vals |-> <<>>,
     strings |-> FALSE, condition |-> ""]
NoRet == [ret |-> <<>>, raised |-> "no", cols |-> <<>>, yields |-> <<>>]
NoLoop == [pc |-> "idle", got |-> <<>>]

NdIdle ==
    /\ nd = EmptyNavData
    /\ nd_before = EmptyNavData
    /\ nd_call = NoCall
    /\ nd_ret = NoRet
    /\ nd_ops = 0
    /\ nd_curr_col = 0
    /\ nd_num_cols = 0
    /\ it_loops = [l \in Loops |-> NoLoop]

\* no loop over the instance has begun
NoLoopBegun == \A l \in Loops : it_loops[l].pc = "idle"

\* a call that is not part of a loop over the instance
NdCalled(call, self, ret) ==
    /\ nd_ops < NdMaxOps
    /\ NoLoopBegun
    /\ nd_ops' = nd_ops + 1
    /\ nd_before' = nd
    /\ nd_call' = call
    /\ nd' = self
    /\ nd_ret' = ret
    /\ UNCHANGED <<nd_curr_col, nd_num_cols, it_loops>>

\* navdata[key] = vals
NdSetItem ==
    /\ \E key \in NdKeys, strings \in BOOLEAN :
       \E vals \in NdValues(strings,
                            IF nd.array = <<>> /\ nd.ncols = 0 THEN NumCols
                            ELSE nd.ncols) :
          /\ vals # <<>>
          /\ NdCalled([NoCall EXCEPT !.op = "__setitem__", !.key = key,
                                     !.vals = vals, !.strings = strings],
                      setitem(nd, key, vals, strings), NoRet)
    /\ UNCHANGED notNd

\* navdata.rename(mapper, rows, inplace)
NdRenamed(call, res) ==
    NdCalled(call, res.self, [NoRet EXCEPT !.ret = res.ret, !.raised = res.raised])

NdRename ==
    /\ \E arg_types \in RenameArgTypes, mapper \in RenameMappers,
          rows \in RenameRows, inplace \in BOOLEAN :
          /\ arg_types # "ok" => (mapper = <<>> /\ rows = <<>> /\ inplace)
          /\ mapper # <<>> => Len(rows) <= 1
          /\ NdRenamed([NoCall EXCEPT !.op = "rename", !.arg_types = arg_types,
                                      !.mapper = mapper, !.rows = rows,
                                      !.inplace = inplace],
                       rename(nd, arg_types, mapper, rows, inplace))
    /\ UNCHANGED notNd

\* navdata.remove(rows, cols, inplace)
NdRemove ==
    /\ \E rows \in RemoveRows, cols \in RemoveCols, inplace \in BOOLEAN :
          NdRenamed([NoCall EXCEPT !.op = "remove", !.names = rows,
                                   !.cols = cols, !.inplace = inplace],
                    remove(nd, rows, cols, inplace))
    /\ UNCHANGED notNd

\* navdata.where(key, value, condition)
NdWhered(call, res) ==
    NdCalled(call, nd,
             [NoRet EXCEPT !.ret = res.ret, !.raised = res.raised,
                           !.cols = res.cols])

NdWhere ==
    /\ \E key \in DictKeys(nd.map) :
       \E q \in (IF is_str(nd, key) THEN WhereString ELSE WhereNumeric) :
          NdWhered([NoCall EXCEPT !.op = "where", !.key = key,
                                  !.vals = q.value, !.strings = is_str(nd, key),
                                  !.condition = q.condition],
                   where(nd, key, q.value, q.condition))
    /\ UNCHANGED notNd

\* for delta_t, group in navdata.loop_time(time_row), run to its end
NdLoopTime ==
    /\ \E time_row \in DictKeys(nd.map) :
          /\ ~is_str(nd, time_row)
          /\ NdCalled([NoCall EXCEPT !.op = "loop_time", !.key = time_row], nd,
                      [NoRet EXCEPT !.yields = loop_time(nd, time_row)])
    /\ UNCHANGED notNd

\* a for loop over the instance begins: iter(navdata) resets the cursor of
\* the instance and returns the instance itself
NdIter ==
    /\ \E l \in Loops :
          /\ it_loops[l].pc = "idle"
          /\ nd.map # <<>>
          /\ nd_curr_col' = 0
          /\ nd_num_cols' = nd.ncols
          /\ it_loops' = [it_loops EXCEPT ![l].pc = "running"]
    /\ nd_before' = nd
    /\ nd_call' = [NoCall EXCEPT !.op = "__iter__"]
    /\ nd_ret' = NoRet
    /\ UNCHANGED <<nd, nd_ops>>
    /\ UNCHANGED notNd

\* a for loop asks for its next column: next(navdata) returns the column at
\* the cursor of the instance and advances it, or raises StopIteration
NdNext ==
    /\ \E l \in Loops :
          /\ it_loops[l].pc = "running"
          /\ IF nd_curr_col >= nd_num_cols
             THEN /\ it_loops' = [it_loops EXCEPT ![l].pc = "stopped"]
                  /\ UNCHANGED nd_curr_col
             ELSE /\ it_loops' = [it_loops EXCEPT
                                     ![l].got = Append(@, nd_curr_col)]
                  /\ nd_curr_col' = nd_curr_col + 1
    /\ UNCHANGED <<nd, nd_before, nd_call, nd_ret, nd_ops, nd_num_cols>>
    /\ UNCHANGED notNd

\* ------------------------------------------------------------------------
\* The harmonic corrections of find_sat (core/measures.py)
\* ------------------------------------------------------------------------
\* for i in range(5)
PhiRefinements == 5

\* phi_corr = c_uc * cos_to_phi + c_us * sin_to_phi, and likewise r_corr
\* and the harmonic part of i_corr: angles and coefficients in hundredths
harmonic(c_cos, c_sin, cos_to_phi, sin_to_phi) ==
    RDiv(c_cos * cos_to_phi + c_sin * sin_to_phi, KeplerScale)

\* 2*(c_rs*cos_to_phi - c_rc*sin_to_phi), the harmonic factor of dr, and
\* likewise those of di and du
harmonic_rate(c_cos, c_sin, cos_to_phi, sin_to_phi) ==
    2 * RDiv(c_sin * cos_to_phi - c_cos * sin_to_phi, KeplerScale)

\* xp = r*np.cos(phi), yp = r*np.sin(phi)
in_plane(r, phi) ==
    [xp |-> RDiv(r * CosF(phi), KeplerScale),
     yp |-> RDiv(r * SinF(phi), KeplerScale)]

\* arguments of latitude nu + omega, harmonic coefficients and radii
PhPhi0 == {0, 50, 100, 200, 250}
PhCoefs ==
    {[c_uc |-> u[1], c_us |-> u[2], c_rc |-> 30, c_rs |-> 10, c_ic |-> 2,
      c_is |-> 1] : u \in {<<0, 0>>, <<1, 0>>, <<40, 0>>, <<0, 40>>}}
PhRadii == {1000, 2000}

PhNoCoef == [c_uc |-> 0, c_us |-> 0, c_rc |-> 0, c_rs |-> 0, c_ic |-> 0, c_is |-> 0]
PhNoCorr == [r_corr |-> 0, i_corr |-> 0, dr |-> 0, di |-> 0, du |-> 0]
PhNoPlane == [xp |-> 0, yp |-> 0]

PhIdle ==
    /\ ph_pc = "idle"
    /\ ph_phi_0 = 0 /\ ph_coef = PhNoCoef /\ ph_r_0 = 0
    /\ ph_i = 0 /\ ph_phi = 0 /\ ph_cos_to_phi = 0 /\ ph_sin_to_phi = 0
    /\ ph_corr = PhNoCorr /\ ph_plane = PhNoPlane

\* phi_0 = nu + omega; phi = phi_0
InitPhi ==
    /\ ph_pc = "loop"
    /\ ph_phi_0 \in PhPhi0 /\ ph_coef \in PhCoefs /\ ph_r_0 \in PhRadii
    /\ ph_i = 0 /\ ph_phi = ph_phi_0
    /\ ph_cos_to_phi = 0 /\ ph_sin_to_phi = 0
    /\ ph_corr = PhNoCorr /\ ph_plane = PhNoPlane

\* one pass of the loop: cos_to_phi and sin_to_phi of the phi the pass
\* starts with, and phi = phi_0 + phi_corr
PhRefine ==
    /\ ph_pc = "loop" /\ ph_i < PhiRefinements
    /\ ph_cos_to_phi' = CosF(2 * ph_phi)
    /\ ph_sin_to_phi' = SinF(2 * ph_phi)
    /\ ph_phi' = ph_phi_0 + harmonic(ph_coef.c_uc, ph_coef.c_us,
                                     CosF(2 * ph_phi), SinF(2 * ph_phi))
    /\ ph_i' = ph_i + 1
    /\ UNCHANGED <<ph_pc, ph_phi_0, ph_coef, ph_r_0, ph_corr, ph_plane>>
    /\ UNCHANGED notPh

\* after the loop: r_corr, i_corr and the harmonic factors of dr, di and du
\* from the locals cos_to_phi and sin_to_phi
PhCorrections ==
    /\ ph_pc = "loop" /\ ph_i = PhiRefinements
    /\ ph_corr' =
           [r_corr |-> harmonic(ph_coef.c_rc, ph_coef.c_rs, ph_cos_to_phi,
                                ph_sin_to_phi),
            i_corr |-> harmonic(ph_coef.c_ic, ph_coef.c_is, ph_cos_to_phi,
                                ph_sin_to_phi),
            dr |-> harmonic_rate(ph_coef.c_rc, ph_coef.c_rs, ph_cos_to_phi,
                                 ph_sin_to_phi),
            di |-> harmonic_rate(ph_coef.c_ic, ph_coef.c_is, ph_cos_to_phi,
                                 ph_sin_to_phi),
            du |-> harmonic_rate(ph_coef.c_uc, ph_coef.c_us, ph_cos_to_phi,
                                 ph_sin_to_phi)]
    /\ ph_pc' = "plane"
    /\ UNCHANGED <<ph_phi_0, ph_coef, ph_r_0, ph_i, ph_phi, ph_cos_to_phi,
                   ph_sin_to_phi, ph_plane>>
    /\ UNCHANGED notPh

\* xp and yp from the corrected radius and phi
PhPlane ==
    /\ ph_pc = "plane"
    /\ ph_plane' = in_plane(ph_r_0 + ph_corr.r_corr, ph_phi)
    /\ ph_pc' = "done"
    /\ UNCHANGED <<ph_phi_0, ph_coef, ph_r_0, ph_i, ph_phi, ph_cos_to_phi,
                   ph_sin_to_phi, ph_corr>>
    /\ UNCHANGED notPh

\* ------------------------------------------------------------------------
\* Specifications
\* ------------------------------------------------------------------------
vars == <<fsVars, cpVars, emVars, gmVars, amVars, smVars, stVars, kpVars, atVars, ndVars, phVars>>

\* calls of find_sat
InitSpecFindSat == InitFindSat /\ CpIdle /\ EmIdle /\ GmIdle /\ AmIdle /\ SmIdle /\ StIdle /\ KpIdle /\ AtIdle /\ NdIdle /\ PhIdle

NextFindSat == FindSat

SpecFindSat == InitSpecFindSat /\ [][NextFindSat]_vars

\* calls of correct_pseudorange and _calculate_clock_delay
InitSpecCorrect == InitCorrect /\ FsIdle /\ EmIdle /\ GmIdle /\ AmIdle /\ SmIdle /\ StIdle /\ KpIdle /\ AtIdle /\ NdIdle /\ PhIdle

NextCorrect ==
    \/ CorrectPseudorange
    \/ CalculateClockDelay

SpecCorrect == InitSpecCorrect /\ [][NextCorrect]_vars

\* time steps of add_measures
InitSpecAdd == InitAdd /\ FsIdle /\ CpIdle /\ EmIdle /\ GmIdle /\ SmIdle /\ StIdle /\ KpIdle /\ AtIdle /\ NdIdle /\ PhIdle

NextAdd == AddMeasures

SpecAdd == InitSpecAdd /\ [][NextAdd]_vars

\* calls of the gnss_models.py functions that take a receiver state
InitSpecState == InitState /\ FsIdle /\ CpIdle /\ EmIdle /\ GmIdle /\ AmIdle /\ SmIdle /\ KpIdle /\ AtIdle /\ NdIdle /\ PhIdle

NextState ==
    \/ StExpectedMeasures
    \/ StSimulateMeasures
    \/ StCalculatePseudorangeCorr
    \/ StFindVisibleSats

SpecState == InitSpecState /\ [][NextState]_vars

\* a call of the Kepler solver
InitSpecKepler == InitKepler /\ FsIdle /\ CpIdle /\ EmIdle /\ GmIdle /\ AmIdle /\ SmIdle /\ StIdle /\ AtIdle /\ NdIdle /\ PhIdle

NextKepler ==
    \/ KpInitialGuess
    \/ KpNewtonStep
    \/ KpReturn

SpecKepler == InitSpecKepler /\ [][NextKepler]_vars

\* calls of the atmospheric delay models
InitSpecAtmosphere == InitAtmosphere /\ FsIdle /\ CpIdle /\ EmIdle /\ GmIdle /\ AmIdle /\ SmIdle /\ StIdle /\ KpIdle /\ NdIdle /\ PhIdle

NextAtmosphere ==
    \/ AtCoreTropoDelay
    \/ AtGmTropoDelay
    \/ AtIonoDelay

SpecAtmosphere == InitSpecAtmosphere /\ [][NextAtmosphere]_vars

\* calls on a NavData instance and loops over it
InitSpecNav == NdIdle /\ FsIdle /\ CpIdle /\ EmIdle /\ GmIdle /\ AmIdle /\ SmIdle /\ StIdle /\ KpIdle /\ AtIdle /\ PhIdle

NextNav ==
    \/ NdSetItem
    \/ NdRename
    \/ NdRemove
    \/ NdWhere
    \/ NdLoopTime
    \/ NdIter
    \/ NdNext

SpecNav == InitSpecNav /\ [][NextNav]_vars

\* the harmonic corrections of find_sat
InitSpecPhi == InitPhi /\ FsIdle /\ CpIdle /\ EmIdle /\ GmIdle /\ AmIdle /\ SmIdle /\ StIdle /\ KpIdle /\ AtIdle /\ NdIdle

NextPhi ==
    \/ PhRefine
    \/ PhCorrections
    \/ PhPlane

SpecPhi == InitSpecPhi /\ [][NextPhi]_vars

\* runs of simulate_measures, of core/measures.py and of
\* utils/gnss_models.py
InitSpecSim == InitSim /\ FsIdle /\ CpIdle /\ EmIdle /\ GmIdle /\ AmIdle /\ StIdle /\ KpIdle /\ AtIdle /\ NdIdle /\ PhIdle

NextSim ==
    \/ SeedRng
    \/ SimulateMeasuresCore
    \/ SimulateMeasuresRng
    \/ SimulateMeasuresNoRng

SpecSim == InitSpecSim /\ [][NextSim]_vars

\* calls of expected_measures, of core/measures.py and of
\* utils/gnss_models.py
Init == InitMeasures /\ InitGm /\ FsIdle /\ CpIdle /\ AmIdle /\ SmIdle /\ StIdle /\ KpIdle /\ AtIdle /\ NdIdle /\ PhIdle

Next ==
    \/ CallEphem
    \/ CallTable
    \/ FindSat1
    \/ Range1
    \/ FindSat2
    \/ Range2
    \/ EarthRotation
    \/ Measures
    \/ GmExpectedMeasures

Spec == Init /\ [][Next]_vars

\* ------------------------------------------------------------------------
\* Claims
\* ------------------------------------------------------------------------

\* C1: in find_sat, for every satellite, dt = times - t_oe +
\* ((gpsweek mod 1024) - (ephemeris GPSWeek mod 1024)) * 604800; with
\* equal weeks dt = times - t_oe.
C1_ElapsedTimeWeekDifference ==
    fs_pc = "done" =>
        \A s \in SVs :
            /\ fs_dt[s] = fs_times - fs_ephem[s].t_oe
                          + ((fs_gpsweek % WEEKMOD)
                             - (fs_ephem[s].GPSWeek % WEEKMOD)) * WEEKSEC
            /\ fs_gpsweek = fs_ephem[s].GPSWeek
                   => fs_dt[s] = fs_times - fs_ephem[s].t_oe

\* C2: every clock time offset with |gpstime - t_oc| > 302400 is used as
\* (gpstime - t_oc) - sign * 604800, so the offset used has magnitude at
\* most 302400, in correct_pseudorange and in _calculate_clock_delay.
C2_HalfWeekWrap ==
    /\ cp_pc = "done" =>
          \A s \in SVs :
              LET raw == cp_gpstime - cp_ephem[s].t_oc
              IN  /\ Abs(raw) > HALFWEEK
                        => cp_t_offset[s] = raw - Sign(raw) * WEEKSEC
                  /\ Abs(cp_t_offset[s]) <= HALFWEEK
    /\ cd_pc = "done" =>
          \A s \in SVs :
              LET raw == cp_gpstime - cp_ephem[s].t_oc
              IN  /\ Abs(raw) > HALFWEEK
                        => cd_t_offset[s] = raw - Sign(raw) * WEEKSEC
                  /\ Abs(cd_t_offset[s]) <= HALFWEEK

\* C6: a satellite whose corrected pseudorange is not-a-number gets the
\* original measurement passed in as pr_meas (finite when the input was
\* finite); the other satellites get their corrected values.
C6_NanFallsBackToMeasurement ==
    cp_pc = "done" =>
        \A s \in SVs :
            LET dt == correct_pseudorange_dt(cp_gpstime, cp_ephem)
                corr == FScale(clock_corr(cp_ephem[s], cp_t_offset[s], dt[s]), C)
                corrected ==
                    IF cp_rx_given
                    THEN FSub(FAdd(pr_meas_in[s], corr),
                              FNum(calculate_tropo_delay(cp_ephem)[s] * C))
                    ELSE FAdd(pr_meas_in[s], corr)
            IN  IF corrected.nan
                THEN pr_corr[s] = pr_meas_in[s] /\ ~pr_corr[s].nan
                ELSE pr_corr[s] = corrected

\* C7: when precomputed satellite states are supplied to expected_measures,
\* the caller's table holds after the call what it held at the call, and
\* the table returned holds the same.
C7_PrecomputedStatesNotModified ==
    (pc = "done" /\ mode = "table") =>
        /\ heap["caller"] = tbl_at_call
        /\ heap[ret_sat_posvel] = tbl_at_call

\* C8: the second of two calls of expected_measures made in a row with the
\* same arguments returns the pseudoranges and Dopplers the first returned.
C8_SecondCallIdentical ==
    (calls = 2 /\ pc = "done" /\ mode = prev_mode) =>
        measurements = prev_measurements

\* the operations of the two-pass scheme for the arguments of the call
TwoPassScheme ==
    LET times1 == [s \in SVs |-> gpstime - T_TRANS]
        tc1 == transit_time(
                   find_delxyz_range(find_sat(ephem, times1, gpsweek),
                                     pos).true_range)
        times2 == [s \in SVs |-> gpstime - tc1[s]]
        tc2 == transit_time(
                   find_delxyz_range(find_sat(ephem, times2, gpsweek),
                                     pos).true_range)
    IN  << [op |-> "find_sat", arg |-> times1],
           [op |-> "range", arg |-> tc1],
           [op |-> "find_sat", arg |-> times2],
           [op |-> "range", arg |-> tc2],
           [op |-> "earth_rotation", arg |-> tc2] >>

\* C10: with ephemeris and no precomputed states, the operations executed
\* so far are always an initial part of: propagate at gpstime - T_TRANS,
\* range and transit time, propagate at gpstime - transit time, range,
\* Earth-rotation correction; all five have run when the measurements are
\* formed.
C10_TwoPassOrder ==
    mode = "ephem" =>
        /\ Len(steps) <= Len(TwoPassScheme)
        /\ steps = SubSeq(TwoPassScheme, 1, Len(steps))
        /\ pc \in {"measures", "done"} => Len(steps) = Len(TwoPassScheme)

\* a call with ephemeris only has returned
C10_Witness ==
    /\ pc = "done" /\ mode = "ephem"
    /\ Len(steps) = 5
    /\ steps[3].arg # steps[1].arg

\* the Doppler of the claimed formula: -(F1/C) * (range_rate + drift), with
\* range_rate the relative velocity projected onto the line of sight
ClaimedDoppler(sat_vel, dpos, rx_vel, clk_drift) ==
    LET del_vel == VSub(sat_vel, rx_vel)
        range == Norm(dpos)
    IN  Frac(-F1 * (Dot(del_vel, dpos) + clk_drift * range), C * range)

\* C3: for every satellite expected_measures returns the Doppler
\* -(F1/C) * ((del_vel . del_pos)/|del_pos| + receiver clock drift), in
\* core/measures.py and in utils/gnss_models.py, whatever the clock bias.
C3_ExpectedDoppler ==
    /\ pc = "done" =>
          \A s \in SVs :
              measurements[s].doppler =
                  ClaimedDoppler(SatVel(heap[ret_sat_posvel][s]), del_pos[s],
                                 vel, b_dot)
    /\ gm_pc = "done" =>
          \A s \in SVs :
              gm_measurements[s].doppler =
                  ClaimedDoppler(SatVel(gm_sv_posvel[s]),
                                 VSub(SatPos(gm_sv_posvel[s]), pos),
                                 vel, b_dot)

\* the satellite positions the range of a finished call is measured to
RangedPositions ==
    IF mode = "ephem"
    THEN find_sat(ephem, TwoPassScheme[3].arg, gpsweek)
    ELSE tbl_at_call

\* C4: for every satellite expected_measures returns the pseudorange
\* |satellite position - receiver position| + receiver clock bias and
\* nothing else, in core/measures.py and in utils/gnss_models.py.
C4_ExpectedPseudorange ==
    /\ pc = "done" =>
          \A s \in SVs :
              measurements[s].prange =
                  Norm(VSub(SatPos(RangedPositions[s]), pos)) + bias
    /\ gm_pc = "done" =>
          \A s \in SVs :
              gm_measurements[s].prange =
                  Norm(VSub(SatPos(gm_sv_posvel[s]), pos)) + bias

\* both versions of expected_measures have returned for a receiver with a
\* clock bias
C4_Witness ==
    /\ pc = "done" /\ gm_pc = "done"
    /\ bias # 0
    /\ \A s \in SVs : measurements[s].prange > bias

\* the estimates of one time step in increasing order of satellite id,
\* which for satellites 1..NumSat is by satellite id
EstimatesById ==
    LET sv_opt == IF am_has_sv
                  THEN Some([s \in SVs |->
                                find_sat_state(am_ephem[s], am_tow, AmWeek)])
                  ELSE None
    IN  [em |-> gm_expected_measures(am_tow, AmWeek, AmPos, AmVel, AmBias,
                                     AmDrift, am_ephem, sv_opt),
         corr |-> calculate_pseudorange_corr(am_tow, TRUE, am_ephem,
                                             am_iono_params)]

\* C5: after a time step of add_measures, column i of every derived row
\* holds the value of the satellite in column i of the measurement frame,
\* for every ordering of the frame: est_pr_m, est_doppler_hz, b_sv_m,
\* tropo_delay_m, iono_delay_m and, when the states were computed, the SV
\* state rows.
C5_DerivedRowsInInputOrder ==
    am_pc = "done" =>
        \A i \in SVs :
            LET id == am_sv_id[i]
                e == EstimatesById
                f == am_est_frame
            IN  /\ am_pseudorange
                      => f.est_pr_m[i] = e.em.measurements[id].prange
                /\ am_doppler
                      => f.est_doppler_hz[i] = e.em.measurements[id].doppler
                /\ am_corrections
                      => /\ f.b_sv_m[i] = e.corr.clock_corr[id]
                         /\ f.tropo_delay_m[i] = e.corr.tropo_delay[id]
                         /\ f.iono_delay_m[i] = e.corr.iono_delay[id]
                /\ ~am_has_sv => f.sv[i] = e.em.sv_posvel[id]

\* C9: every run of simulate_measures draws its noise from the generator
\* the caller holds, in the state it has at the call, and two runs of the
\* same function given the same generator state and the same inputs return
\* the same simulated pseudoranges and Dopplers.
C9_InjectedRandomSource ==
    /\ \A i \in DOMAIN sm_runs : sm_runs[i].drawn_from = sm_runs[i].rng_in
    /\ \A i, j \in DOMAIN sm_runs :
          (sm_runs[i].fn = sm_runs[j].fn
             /\ sm_runs[i].rng_in = sm_runs[j].rng_in)
              => sm_runs[i].out = sm_runs[j].out

\* C11: the Earth-rotation correction is the rotation about the Z axis by
\* OMEGAEDOT * t_corr to first order: x changes by an amount proportional
\* to y and y by an amount proportional to x with the opposite sign, z is
\* unchanged and x*dx + y*dy = 0 (the distance from the Z axis is kept).
C11_EarthRotationIsRotation ==
    pc \in {"measures", "done"} =>
        \A s \in SVs :
            LET pre == RangedPositions[s]
                post == heap[sat_posvel][s]
                dx == post.x - pre.x
                dy == post.y - pre.y
                theta == OMEGAEDOT * t_corr[s]
            IN  /\ \E sg \in {-1, 1} :
                      /\ dx = sg * theta * pre.y
                      /\ dy = -sg * theta * pre.x
                /\ post.z = pre.z
                /\ pre.x * dx + pre.y * dy = 0

\* C12: simulate_measures, expected_measures and calculate_pseudorange_corr
\* raise, with no result and no measurement computed, whenever the receiver
\* state they are given does not have exactly one column.
C12_SingleColumnState ==
    st_cols # 1 =>
        /\ st_expected.status # NotCalled => st_expected.status = Raised
        /\ st_simulated.status # NotCalled => st_simulated.status = Raised
        /\ st_corr.status # NotCalled /\ st_state_given
               => st_corr.status = Raised
        /\ st_expected.measurements = NoMeasurements
        /\ st_simulated.measurements = NoSimulated
        /\ st_state_given => /\ st_corr.clock_corr = NoFloats
                             /\ st_corr.tropo_delay = NoInts
                             /\ st_corr.iono_delay = NoInts

C12_Witness ==
    /\ st_cols # 1
    /\ st_state_given
    /\ st_expected.status = Raised
    /\ st_simulated.status = Raised
    /\ st_corr.status = Raised

\* the terms of calculate_pseudorange_corr as C13 states them: zeros and a
\* warning for a term whose input is absent, the computed term otherwise,
\* every array with one entry per satellite
DegradedCorrections ==
    /\ st_corr.status = Returned
    /\ DOMAIN st_corr.clock_corr = SVs
    /\ DOMAIN st_corr.tropo_delay = SVs
    /\ DOMAIN st_corr.iono_delay = SVs
    /\ IF st_eph_given
       THEN /\ st_corr.clock_corr
                   = calculate_clock_delay(st_tow, st_ephem).clk_corr
            /\ "clock" \notin st_corr.warnings
       ELSE /\ st_corr.clock_corr = NoFloats
            /\ "clock" \in st_corr.warnings
    /\ IF st_state_given
       THEN /\ st_corr.tropo_delay = gm_calculate_tropo_delay(st_ephem)
            /\ "tropo" \notin st_corr.warnings
       ELSE /\ st_corr.tropo_delay = NoInts
            /\ "tropo" \in st_corr.warnings
    /\ IF st_iono_given /\ st_state_given
       THEN /\ st_corr.iono_delay = gm_calculate_iono_delay(st_ephem)
            /\ "iono" \notin st_corr.warnings
       ELSE /\ st_corr.iono_delay = NoInts
            /\ "iono" \in st_corr.warnings

\* C13: calculate_pseudorange_corr never raises for a missing optional
\* input: an absent ephemeris gives a zero clock correction, an absent
\* receiver state a zero tropospheric delay, absent ionospheric parameters
\* or receiver state a zero ionospheric delay, each with a warning, and the
\* terms whose inputs are present are computed.
C13_NeverRaisesForMissingInput ==
    st_corr.status # NotCalled /\ (st_state_given => st_cols = 1)
        => DegradedCorrections

\* C13 (amended): the same holds when ephemeris or precomputed satellite
\* states are supplied; with neither of the two the function raises an
\* assertion error and returns nothing.
C13_DegradesGivenSatellites ==
    st_corr.status # NotCalled /\ (st_state_given => st_cols = 1)
        => IF st_eph_given \/ st_sv_given
           THEN DegradedCorrections
           ELSE st_corr = CorrRaised

C13_Witness ==
    /\ st_corr.status = Returned
    /\ ~st_eph_given /\ st_sv_given
    /\ st_state_given /\ ~st_iono_given
    /\ st_corr.clock_corr = NoFloats
    /\ st_corr.tropo_delay # NoInts
    /\ st_corr.warnings = {"clock", "iono"}

\* the elevation of satellite s from the receiver, from its position
\* propagated at the request time less the nominal transit time, is above
\* the mask
ElevationAboveMask(s) ==
    above_mask(AmPos, SatPos(find_sat_state(st_ephem[s], st_tow - T_TRANS,
                                            AmWeek)))

\* C14: the visibility filter returns exactly the input satellites whose
\* elevation, from positions propagated at request time - nominal transit
\* time, is above the mask, in the relative order of the input, and no
\* satellite that is not in the input or is at or below the mask.
C14_VisibilityFilter ==
    st_visible.status = Returned =>
        LET rows == st_visible.rows
        IN  /\ \A i \in 1..Len(rows) :
                  /\ \E j \in 1..Len(st_index) : st_index[j] = rows[i]
                  /\ ElevationAboveMask(rows[i])
            /\ \A j \in 1..Len(st_index) :
                  ElevationAboveMask(st_index[j])
                      => \E i \in 1..Len(rows) : rows[i] = st_index[j]
            /\ \A i1, i2 \in 1..Len(rows) :
                  i1 < i2 =>
                      \E j1, j2 \in 1..Len(st_index) :
                          /\ j1 < j2
                          /\ st_index[j1] = rows[i1]
                          /\ st_index[j2] = rows[i2]

C14_Witness ==
    /\ st_visible.status = Returned
    /\ st_index # <<1, 2, 3>>
    /\ Len(st_visible.rows) \in 1..(NumSat - 1)
    /\ \E s \in SVs :
          /\ ~ElevationAboveMask(s)
          /\ above_mask(AmPos, SatPos(find_sat_state(st_ephem[s], st_tow,
                                                     AmWeek)))

\* the expected measures of the function of a run, for the inputs of the
\* runs
ExpectedOfRun(fn) ==
    IF fn = "core"
    THEN expected_measures_from(
             find_sat_location(sm_ephem, sm_tow, AmWeek, AmPos),
             AmVel, AmBias, AmDrift)
    ELSE gm_expected_measures(sm_tow, AmWeek, AmPos, AmVel, AmBias, AmDrift,
                              sm_ephem, None).measurements

\* the satellites of the runs' ephemeris above the mask, from positions at
\* the request time less the nominal transit time
VisibleOfRuns ==
    {s \in SVs :
        above_mask(AmPos, SatPos(find_sat_state(sm_ephem[s],
                                                sm_tow - T_TRANS, AmWeek)))}

\* C15: a run of simulate_measures with the default sigmas returns, for the
\* visible satellites only, the expected pseudorange plus 6 times one draw
\* and the expected Doppler plus 1 times another draw of the generator, one
\* pseudorange and one Doppler per visible satellite.
C15_SimulatedMeasures ==
    \A i \in DOMAIN sm_runs :
        LET run == sm_runs[i]
            expected == ExpectedOfRun(run.fn)
            M == Cardinality(VisibleOfRuns)
        IN  \A s \in SVs :
                /\ run.out[s].present <=> s \in VisibleOfRuns
                /\ run.out[s].present =>
                      /\ run.out[s].prange
                             = expected[s].prange
                               + 6 * standard_normal(run.drawn_from,
                                                     row_of(VisibleOfRuns, s))
                      /\ run.out[s].doppler
                             = FracAdd(expected[s].doppler,
                                       1 * standard_normal(
                                               run.drawn_from,
                                               M + row_of(VisibleOfRuns, s)),
                                       1)

\* C16: the solver prints its message exactly when, for some satellite, the
\* magnitude of the last Newton step exceeds the tolerance, and returns the
\* last eccentric anomaly of every satellite either way.
C16_WarnsOnLargeFinalStep ==
    kp_pc = "done" =>
        /\ kp_warned <=> \E s \in SVs : Abs(kp_dE[s]) > tol
        /\ DOMAIN kp_E = SVs

\* C17: the solver starts from E = M and does exactly 10 updates
\* E <- E + (M - E + e*sin(E)) / (1 - e*cos(E)) whatever M, e and the steps'
\* sizes are, then returns.
C17_TenNewtonUpdates ==
    /\ [](kp_pc = "loop" /\ kp_iter = 0 => kp_E = kp_M)
    /\ [](kp_pc = "done" => kp_iter = 10)
    /\ [][kp_iter' # kp_iter =>
            /\ kp_iter' = kp_iter + 1
            /\ kp_E' = [s \in SVs |->
                   kp_E[s]
                   + RDiv((kp_M[s] - kp_E[s]
                           + RDiv(kp_e[s] * SinF(kp_E[s]), KeplerScale))
                          * KeplerScale,
                          KeplerScale
                          - RDiv(kp_e[s] * CosF(kp_E[s]), KeplerScale))]]_vars

C17_Witness ==
    /\ kp_pc = "done"
    /\ kp_iter = 10
    /\ \A s \in SVs : kp_dE[s] = 0
    /\ \E s \in SVs : kp_E[s] # kp_M[s]

\* C18: for mean anomaly 0 and eccentricity in [0, 1) the eccentric anomaly
\* is 0 from the initial guess on: every step is 0 and 0 is returned.
C18_ZeroMeanAnomaly ==
    \A s \in SVs :
        (kp_M[s] = 0 /\ kp_e[s] \in 0..(KeplerScale - 1)
         /\ kp_pc \in {"loop", "done"})
            => kp_E[s] = 0 /\ kp_dE[s] = 0

C18_Witness ==
    /\ kp_pc = "done"
    /\ kp_iter = max_iter
    /\ \E s \in SVs : kp_M[s] = 0 /\ kp_e[s] = 0 /\ kp_E[s] = 0
    /\ \E s \in SVs : kp_M[s] = 0 /\ kp_e[s] > 0 /\ kp_E[s] = 0
    /\ \E s \in SVs : kp_M[s] # 0

\* C19: for a receiver of negative geodetic height both tropospheric delay
\* functions return, for every satellite, the delay of the same elevation at
\* height 0; a height of zero or more is used as it is.
C19_HeightClamped ==
    LET used == IF at_height < 0 THEN 0 ELSE at_height
    IN  /\ at_tropo_core.status = Returned =>
              \A s \in SVs :
                  at_tropo_core.delay[s] = tropo_delay_seconds(at_el[s], used)
        /\ at_tropo_gm.status = Returned =>
              \A s \in SVs :
                  at_tropo_gm.delay[s]
                      = C * tropo_delay_seconds(at_el[s], used)

C19_Witness ==
    /\ at_height < 0
    /\ at_tropo_core.status = Returned
    /\ at_tropo_gm.status = Returned
    /\ \E s \in SVs :
          /\ at_tropo_core.delay[s] = tropo_delay_seconds(at_el[s], 0)
          /\ at_tropo_core.delay[s] # tropo_delay_seconds(at_el[s], at_height)

\* the value x brought to the nearest bound of lo..hi
NearestIn(x, lo, hi) == IF x < lo THEN lo ELSE IF x > hi THEN hi ELSE x

\* what the Klobuchar model computes for satellite s before each bounding
\* step, from the bounded values of the steps before it
RawLatI(s) == klob_lat_i(at_lat_r, at_el[s], at_az[s])

RawLonI(s) ==
    klob_lon_i(at_lon_r, at_el[s], at_az[s], at_iono.values[s].lat_i)

RawSolarTime(s) == klob_solar_time(RawLonI(s), at_tow)

RawLatM(s) == klob_lat_m(at_iono.values[s].lat_i, RawLonI(s))

Overhead == {s \in SVs : at_el[s] = PiF \div 2}

\* C21: for a satellite at elevation 90 degrees the ionospheric delay is
\* computed with slant factor exactly 1.0.
C21_SlantFactorOneOverhead ==
    at_iono.status = Returned =>
        \A s \in Overhead : at_iono.values[s].slant_fact = SlantScale

\* C21 (amended): for a satellite at elevation 90 degrees the slant factor
\* is 1 + 0.516*(1.6755 - pi/2)^3, 1.0006 to four places: above 1.0 and the
\* smallest of the factors of the satellites at elevations up to 90 degrees.
C21_SlantFactorOverhead ==
    at_iono.status = Returned =>
        \A s \in Overhead :
            /\ at_iono.values[s].slant_fact = 10006
            /\ at_iono.values[s].slant_fact > SlantScale
            /\ \A t \in SVs :
                  at_el[t] <= at_el[s]
                      => at_iono.values[t].slant_fact
                             >= at_iono.values[s].slant_fact

C21_Witness ==
    /\ at_iono.status = Returned
    /\ Overhead # {}
    /\ \E t \in SVs : at_el[t] < PiF \div 2
    /\ \E s \in Overhead : at_iono.values[s].iono_delay > 0


\* C24: when _find_sat_location has returned, for every satellite del_pos is
\* the returned satellite position minus the receiver position and
\* true_range is the length of that difference.
C24_RangeOfReturnedPositions ==
    pc \in {"measures", "done"} =>
        \A s \in SVs :
            /\ del_pos[s] = VSub(SatPos(heap[sat_posvel][s]), pos)
            /\ true_range[s] = Norm(VSub(SatPos(heap[sat_posvel][s]), pos))


\* C27: for every combination of the pseudorange, doppler and corrections
\* flags a time step of add_measures ends without an error, and the frame
\* of estimates has est_pr_m, est_doppler_hz and the three correction rows
\* exactly when their flag is set.
C27_EveryFlagCombination ==
    am_pc # "idle" =>
        /\ am_pc = "done"
        /\ "est_pr_m" \in am_est_frame.rows <=> am_pseudorange
        /\ "est_doppler_hz" \in am_est_frame.rows <=> am_doppler
        /\ \A row \in {"b_sv_m", "tropo_delay_m", "iono_delay_m"} :
               row \in am_est_frame.rows <=> am_corrections


\* the last call was rename or remove and did not raise
RenamedOrRemoved == nd_call.op \in {"rename", "remove"} /\ nd_ret.raised = "no"

\* what the last call, rename or remove, does to the instance it was made
\* on with the inplace given
LastCallWith(inplace) ==
    IF nd_call.op = "rename"
    THEN rename(nd_before, nd_call.arg_types, nd_call.mapper, nd_call.rows,
                inplace)
    ELSE remove(nd_before, nd_call.names, nd_call.cols, inplace)

\* two NavData have the same row names and in every row the same values
SameRowsAndValues(x, y) ==
    /\ DictKeys(x.map) = DictKeys(y.map)
    /\ \A key \in DictKeys(x.map) :
          /\ is_str(x, key) = is_str(y, key)
          /\ getitem(x, key, AllCols(x)) = getitem(y, key, AllCols(y))

\* C22: rename and remove with inplace=False leave the instance as it was
\* and return a new NavData; with inplace=True they return None; and the
\* instance after the call with inplace=True has the rows and values of the
\* NavData the same call returns with inplace=False.
C22_InplaceAndCopyAgree ==
    RenamedOrRemoved =>
        /\ ~nd_call.inplace => (nd = nd_before /\ nd_ret.ret # <<>>)
        /\ nd_call.inplace => (nd_ret.ret = <<>> /\ nd = LastCallWith(TRUE).self)
        /\ SameRowsAndValues(LastCallWith(TRUE).self, LastCallWith(FALSE).ret[1])


\* the columns of the instance whose entry in the row of the last call,
\* where, meets the call's condition
ColumnsMeeting ==
    SelectSeq(AllCols(nd),
              LAMBDA c :
                  IF nd_call.strings
                  THEN get_strings(nd, nd_call.key)[c] = nd_call.vals[1]
                  ELSE condition_holds(getitem(nd, nd_call.key, <<c>>)[1],
                                       nd_call.vals, nd_call.condition))

\* C23: where on a numeric row with one of the six conditions, or on a
\* string row with eq, raises nothing and returns a NavData of exactly the
\* columns whose entry meets the condition, in their order in the instance;
\* of no column when none meets it.
C23_WhereKeepsMatchingColumns ==
    (/\ nd_call.op = "where"
     /\ nd_call.condition \in (IF nd_call.strings THEN {"eq"} ELSE Conditions))
        => /\ nd_ret.raised = "no"
           /\ nd_ret.cols = ColumnsMeeting
           /\ nd_ret.ret # <<>>
           /\ nd_ret.ret[1].ncols = Len(ColumnsMeeting)


\* C25: the row-name map of the instance is one-to-one from the row names
\* onto the indices 0..M-1 of the M rows of the array, and the string map
\* has the row names of the row-name map.
C25_MapIsBijection ==
    /\ Len(nd.map) = Len(nd.array)
    /\ {nd.map[i].val : i \in DOMAIN nd.map} = 0..(Len(nd.array) - 1)
    /\ \A i, j \in DOMAIN nd.map : nd.map[i].key = nd.map[j].key => i = j
    /\ DictKeys(nd.str_map) = DictKeys(nd.map)


\* the groups of the last call, loop_time, a column of the instance is in
GroupsOf(c) ==
    {i \in DOMAIN nd_ret.yields :
        \E j \in DOMAIN nd_ret.yields[i].cols : nd_ret.yields[i].cols[j] = c}

\* C26: over one loop of loop_time every column of the instance is in
\* exactly one group, the groups come in strictly increasing order of their
\* time, the first delta_t is 0 and every later one is the positive
\* difference of its group's time and the time of the group before.
C26_LoopTimePartitions ==
    nd_call.op = "loop_time" =>
        /\ \A c \in 1..nd.ncols : Cardinality(GroupsOf(c)) = 1
        /\ \A i \in DOMAIN nd_ret.yields :
              IF i = 1 THEN nd_ret.yields[i].delta_t = 0
              ELSE /\ nd_ret.yields[i].time > nd_ret.yields[i - 1].time
                   /\ nd_ret.yields[i].delta_t > 0
                   /\ nd_ret.yields[i].delta_t =
                          nd_ret.yields[i].time - nd_ret.yields[i - 1].time


\* C28: when rename raises, the instance is as it was before the call: no
\* row is renamed and no value is remapped.
C28_RaisingRenameChangesNothing ==
    (nd_call.op = "rename" /\ nd_ret.raised # "no") => nd = nd_before


\* C29: each of the loops over the instance gets the columns in column
\* order, none skipped and none twice, and has got every column when it
\* stops.
C29_InterleavedLoops ==
    \A l \in Loops :
        /\ \A i \in DOMAIN it_loops[l].got : it_loops[l].got[i] = i - 1
        /\ it_loops[l].pc = "stopped" => Len(it_loops[l].got) = nd.ncols


\* C30: the harmonic corrections of the radius and the inclination, and the
\* harmonic factors of their rates, are those of the argument of latitude
\* xp and yp are computed from, the value after the fifth refinement.
C30_CorrectionsAtFinalPhi ==
    ph_pc = "done" =>
        /\ ph_plane = in_plane(ph_r_0 + ph_corr.r_corr, ph_phi)
        /\ ph_corr.r_corr = harmonic(ph_coef.c_rc, ph_coef.c_rs,
                                     CosF(2 * ph_phi), SinF(2 * ph_phi))
        /\ ph_corr.i_corr = harmonic(ph_coef.c_ic, ph_coef.c_is,
                                     CosF(2 * ph_phi), SinF(2 * ph_phi))
        /\ ph_corr.dr = harmonic_rate(ph_coef.c_rc, ph_coef.c_rs,
                                      CosF(2 * ph_phi), SinF(2 * ph_phi))
        /\ ph_corr.di = harmonic_rate(ph_coef.c_ic, ph_coef.c_is,
                                      CosF(2 * ph_phi), SinF(2 * ph_phi))

============================================================================
